---- MODULE Spec2Model ----
(***************************************************************************)
(* A model of the governed replay harnesses of nuvalla_scenarios:          *)
(*   Agent_Misbehavior_Replay.py  MockSystems, NuvallaHook,                *)
(*                                 run_trace_direct, run_trace_with_nuvalla *)
(*   FINTECH_ONLY.py              MockSystems, NuvallaAdapter,             *)
(*                                 run_fintech_replay                      *)
(* Python dicts are functions (DOMAIN = the keys), lists are sequences,    *)
(* messages are tuples of their parts, uuid4 is a fresh number.            *)
(***************************************************************************)
EXTENDS Integers, Sequences, FiniteSets, TLC

VARIABLES
    runner,               \* which replay loop drives the instance
    hook,                 \* which policy object the governed loop was given
    systems,              \* the MockSystems instance of the run
    uuids,                \* how many uuid4 values were drawn so far
    approvals_by_action,  \* NuvallaHook._approvals_by_action
    nsteps,               \* loop iterations done so far (also the clock, in ms)
    last,                 \* what the last loop iteration did and printed
    halted,               \* an exception left the replay loop
    audit,                \* per action_id: what execute has returned so far
    threads,              \* concurrent callers of one instance, by thread id
    replay                \* run_fintech_replay on one trace (SpecReplay)

vars == <<runner, hook, systems, uuids, approvals_by_action, nsteps, last,
          halted, audit, threads, replay>>

-----------------------------------------------------------------------------
(* Bounds of the model *)

\* loop iterations (tool calls and approvals) of a replay under the built-in
\* policy or with no policy
MaxSteps == 4

\* loop iterations of a replay whose policy object is a wired engine, which
\* may answer each call in any way
MaxEngineSteps == 3

\* approvals in the approvals_timeline of a trace
MaxTimeline == 3

\* traces replayed on one hook and one MockSystems
MaxTraces == 3

\* HTTP requests sent to a mock server
MaxRequests == 3

\* requests a server has handled before two callers send one request at once
MaxSetup == 1

\* scenarios the concurrent sender agent builds (3000 in build_3000)
MaxScenarios == 11

\* scenarios a sequential sender agent builds
MaxSeqScenarios == 42

-----------------------------------------------------------------------------
(* Python values *)

None == [none |-> TRUE]
EmptyDict == <<>>

\* dict.get(k, default)
Get(d, k, default) == IF k \in DOMAIN d THEN d[k] ELSE default

\* d[k] = v
Put(d, k, v) == (k :> v) @@ d

\* {**a, **b}: the keys of b win
Merge(a, b) == b @@ a

\* a value of params that may be an int or a str
PyInt(n) == [int |-> n]
PyStr(s) == [str |-> s]

\* A Python float (IEEE 754 binary64) that is not negative: the triple
\* <<hi, mid, lo>> of the limbs of v * 2^43, v = (hi * Limb^2 + mid * Limb +
\* lo) / 2^43, of which at most SignificandBits bits are significant. Every
\* float from 512 up to 2^20 has this form.
SignificandBits == 53
Limb == 2^22

PyFloat(hi, mid, lo) == [float |-> <<hi, mid, lo>>]

\* the limbs of a sum of limbs, the carries taken up
Carry(hi, mid, lo) ==
    LET m == mid + (lo \div Limb) IN
    <<hi + (m \div Limb), m % Limb, lo % Limb>>

\* the number of bits of n
BitLength(n) ==
    IF n = 0 THEN 0 ELSE CHOOSE k \in 1..23 : 2^(k-1) <= n /\ n < 2^k

Bits(t) ==
    IF t[1] > 0 THEN 44 + BitLength(t[1])
    ELSE IF t[2] > 0 THEN 22 + BitLength(t[2])
    ELSE BitLength(t[3])

\* round to nearest, ties to even, to SignificandBits significant bits
RoundEven(t) ==
    LET d == Bits(t) - SignificandBits IN
    IF d <= 0 THEN t
    ELSE LET q == 2^d
             r == t[3] % q
             kept == t[3] - r
             up == \/ 2 * r > q
                   \/ 2 * r = q /\ (kept \div q) % 2 = 1
         IN  Carry(t[1], t[2], kept + (IF up THEN q ELSE 0))

\* a + b and a - b (a >= b) on floats
float_add(a, b) == RoundEven(Carry(a[1] + b[1], a[2] + b[2], a[3] + b[3]))
float_sub(a, b) == RoundEven(Carry(a[1] - b[1], a[2] - b[2], a[3] - b[3]))

\* float(x) of an int or a float
float(x) ==
    IF "int" \in DOMAIN x
    THEN <<x.int \div 2, (x.int % 2) * (Limb \div 2), 0>>
    ELSE x.float

-----------------------------------------------------------------------------
(* Data model *)

Decisions == {"COMMIT", "BLOCK", "REQUIRE_APPROVAL", "UNDO"}

PaymentThreshold == 10000
AllowDomain == "acmefinco.com"

ToolCall(action_id, actor, system, operation, params, txn_id) ==
    [action_id |-> action_id, actor |-> actor, system |-> system,
     operation |-> operation, params |-> params, txn_id |-> txn_id]

Approval(action_id, approved_by, role, method) ==
    [action_id |-> action_id, approved_by |-> approved_by, role |-> role,
     method |-> method]

NuvallaEval(decision, message, commit_allowed, required_approvals, receipt) ==
    [decision |-> decision, message |-> message,
     commit_allowed |-> commit_allowed,
     required_approvals |-> required_approvals, receipt |-> receipt]

\* The tool calls the replays are fed: the calls of build_traces and variants
\* of them that retry an action_id with another system, operation or params.
\* An e-mail address is the sequence of its "@"-separated parts.
ActionIds == {"fin_pay", "fin_vendor"}

Calls == {
    ToolCall("fin_pay", "ap_agent", "stripe", "payment.execute",
             [amount_usd |-> PyInt(18750)], "txn_fin_1001"),
    ToolCall("fin_pay", "ap_agent", "stripe", "payment.execute",
             [amount_usd |-> PyInt(2400), force_post_commit_failure |-> TRUE],
             "txn_ins_4004"),
    ToolCall("fin_pay", "ap_agent", "stripe", "payment.execute",
             [amount_usd |-> PyStr("n/a")], "txn_fin_1001"),
    ToolCall("fin_pay", "ap_agent", "m365", "email.send",
             [to |-> <<"auditor", "big4.com">>, contains_phi |-> FALSE],
             "txn_fin_1001"),
    ToolCall("fin_pay", "ap_agent", "jira", "ticket.create",
             [force_post_commit_failure |-> TRUE], "txn_fin_1001"),
    ToolCall("fin_vendor", "ap_agent", "netsuite", "vendor.create",
             [vendor_name |-> "ShadyCo LLC", kyc_passed |-> FALSE],
             "txn_fin_1001"),
    ToolCall("fin_vendor", "ap_agent", "netsuite", "vendor.create",
             [vendor_name |-> "ShadyCo LLC", kyc_passed |-> TRUE,
              force_post_commit_failure |-> TRUE], "txn_fin_1001"),
    ToolCall("fin_vendor", "clinical_agent", "ehr", "medication.order",
             [drug |-> "Heparin"], "txn_hlth_3003"),
    ToolCall("fin_vendor", "clinical_agent", "m365", "email.send",
             [to |-> <<"ops", "acmefinco.com">>, contains_phi |-> TRUE,
              force_post_commit_failure |-> TRUE], "txn_hlth_3003")
}

Approvals == {
    Approval("fin_pay", "cfo@acmefinco.com", "CFO", "dashboard"),
    Approval("fin_pay", "intern@acmefinco.com", "Intern", "dashboard"),
    Approval("fin_vendor", "attending_md@hospital.org", "AttendingMD",
             "ehr_signoff")
}

-----------------------------------------------------------------------------
(* MockSystems (Agent_Misbehavior_Replay.py) *)

MockSystems == [state |-> EmptyDict, idempotency |-> EmptyDict]

\* f"{system}:{uuid.uuid4().hex[:10]}", uuid the fresh value drawn
new_id(system, uuid) == <<system, uuid>>

\* setdefault(system, {})[ext_id] = rec
SetRecord(state, system, ext_id, rec) ==
    Put(state, system, Put(Get(state, system, EmptyDict), ext_id, rec))

\* an execute_direct without the idempotency lookup
execute_direct_no_check(ms, call, uuid, now) ==
    LET ext_id == new_id(call.system, uuid)
        rec == [operation |-> call.operation, params |-> call.params,
                created_at_ms |-> now, deleted |-> FALSE]
    IN  [systems |-> [state |-> SetRecord(ms.state, call.system, ext_id, rec),
                      idempotency |-> Put(ms.idempotency, call.action_id,
                                          ext_id)],
         result  |-> [ok |-> TRUE, external_id |-> ext_id,
                      idempotent_replay |-> FALSE]]

\* an execute_direct that creates a new record when the old one was undone
execute_direct_forget_deleted(ms, call, uuid, now) ==
    IF /\ call.action_id \in DOMAIN ms.idempotency
       /\ ~\E s \in DOMAIN ms.state :
              /\ ms.idempotency[call.action_id] \in DOMAIN ms.state[s]
              /\ ms.state[s][ms.idempotency[call.action_id]].deleted
    THEN [systems |-> ms,
          result  |-> [ok |-> TRUE,
                       external_id |-> ms.idempotency[call.action_id],
                       idempotent_replay |-> TRUE]]
    ELSE execute_direct_no_check(ms, call, uuid, now)

\* an execute_direct that keys the idempotency map by txn_id
execute_direct_by_txn(ms, call, uuid, now) ==
    IF call.txn_id \in DOMAIN ms.idempotency
    THEN [systems |-> ms,
          result  |-> [ok |-> TRUE,
                       external_id |-> ms.idempotency[call.txn_id],
                       idempotent_replay |-> TRUE]]
    ELSE LET ext_id == new_id(call.system, uuid)
             rec == [operation |-> call.operation, params |-> call.params,
                     created_at_ms |-> now, deleted |-> FALSE]
         IN  [systems |-> [state |-> SetRecord(ms.state, call.system, ext_id, rec),
                           idempotency |-> Put(ms.idempotency, call.txn_id,
                                               ext_id)],
              result  |-> [ok |-> TRUE, external_id |-> ext_id,
                           idempotent_replay |-> FALSE]]

\* an execute_direct whose replay stores the replayed call over the record
execute_direct_rewrite(ms, call, uuid, now) ==
    IF call.action_id \in DOMAIN ms.idempotency
    THEN LET ext_id == ms.idempotency[call.action_id]
             rec == [operation |-> call.operation, params |-> call.params,
                     created_at_ms |-> now, deleted |-> FALSE]
         IN  [systems |-> [ms EXCEPT !.state =
                               SetRecord(@, call.system, ext_id, rec)],
              result  |-> [ok |-> TRUE, external_id |-> ext_id,
                           idempotent_replay |-> TRUE]]
    ELSE execute_direct_no_check(ms, call, uuid, now)

execute_direct(ms, call, uuid, now) ==
    IF call.action_id \in DOMAIN ms.idempotency
    THEN [systems |-> ms,
          result  |-> [ok |-> TRUE,
                       external_id |-> ms.idempotency[call.action_id],
                       idempotent_replay |-> TRUE]]
    ELSE LET ext_id == new_id(call.system, uuid)
             rec == [operation |-> call.operation, params |-> call.params,
                     created_at_ms |-> now, deleted |-> FALSE]
         IN  [systems |-> [state |-> SetRecord(ms.state, call.system, ext_id, rec),
                           idempotency |-> Put(ms.idempotency, call.action_id,
                                               ext_id)],
              result  |-> [ok |-> TRUE, external_id |-> ext_id,
                           idempotent_replay |-> FALSE]]

\* an undo that flips the flag instead of setting it
undo_toggle(ms, call, committed_external_id) ==
    LET rec == Get(Get(ms.state, call.system, EmptyDict),
                   committed_external_id, None)
    IN  IF rec = None \/ DOMAIN rec = {}
        THEN [systems |-> ms,
              result  |-> [ok |-> FALSE, error |-> "record_not_found"]]
        ELSE [systems |-> [ms EXCEPT
                  !.state[call.system][committed_external_id].deleted = ~@],
              result  |-> [ok |-> TRUE,
                           undo_id |-> <<"undo", committed_external_id>>]]

\* an undo that reports success for a record it did not find
undo_silent(ms, call, committed_external_id) ==
    LET rec == Get(Get(ms.state, call.system, EmptyDict),
                   committed_external_id, None)
    IN  IF rec = None \/ DOMAIN rec = {}
        THEN [systems |-> ms,
              result  |-> [ok |-> TRUE,
                           undo_id |-> <<"undo", committed_external_id>>]]
        ELSE [systems |-> [ms EXCEPT
                  !.state[call.system][committed_external_id].deleted = TRUE],
              result  |-> [ok |-> TRUE,
                           undo_id |-> <<"undo", committed_external_id>>]]

\* an undo that drops the record instead of flagging it
undo_remove(ms, call, committed_external_id) ==
    LET rec == Get(Get(ms.state, call.system, EmptyDict),
                   committed_external_id, None)
    IN  IF rec = None \/ DOMAIN rec = {}
        THEN [systems |-> ms,
              result  |-> [ok |-> FALSE, error |-> "record_not_found"]]
        ELSE [systems |-> [ms EXCEPT !.state[call.system] =
                  [e \in DOMAIN @ \ {committed_external_id} |-> @[e]]],
              result  |-> [ok |-> TRUE,
                           undo_id |-> <<"undo", committed_external_id>>]]

\* an undo that flags every record of the call's system
undo_whole_system(ms, call, committed_external_id) ==
    LET rec == Get(Get(ms.state, call.system, EmptyDict),
                   committed_external_id, None)
    IN  IF rec = None \/ DOMAIN rec = {}
        THEN [systems |-> ms,
              result  |-> [ok |-> FALSE, error |-> "record_not_found"]]
        ELSE [systems |-> [ms EXCEPT !.state[call.system] =
                  [e \in DOMAIN @ |-> [@[e] EXCEPT !.deleted = TRUE]]],
              result  |-> [ok |-> TRUE,
                           undo_id |-> <<"undo", committed_external_id>>]]

undo(ms, call, committed_external_id) ==
    LET rec == Get(Get(ms.state, call.system, EmptyDict),
                   committed_external_id, None)
    IN  IF rec = None \/ DOMAIN rec = {}
        THEN [systems |-> ms,
              result  |-> [ok |-> FALSE, error |-> "record_not_found"]]
        ELSE [systems |-> [ms EXCEPT
                  !.state[call.system][committed_external_id].deleted = TRUE],
              result  |-> [ok |-> TRUE,
                           undo_id |-> <<"undo", committed_external_id>>]]

get_record(ms, system, external_id) ==
    Get(Get(ms.state, system, EmptyDict), external_id, None)

-----------------------------------------------------------------------------
(* NuvallaHook (Agent_Misbehavior_Replay.py) *)

\* setdefault(approval.action_id, []).append(approval)
\* an approve that skips an approver it already holds for the action_id
approve_dedup(by_action, approval) ==
    LET held == Get(by_action, approval.action_id, <<>>) IN
    IF \E i \in 1..Len(held) : held[i].approved_by = approval.approved_by
    THEN by_action
    ELSE Put(by_action, approval.action_id, Append(held, approval))

\* an approve that keeps only the newest approval of the action_id
approve_replace(by_action, approval) ==
    Put(by_action, approval.action_id, <<approval>>)

approve(by_action, approval) ==
    Put(by_action, approval.action_id,
        Append(Get(by_action, approval.action_id, <<>>), approval))

\* a lookup that reads some action_id's list, whichever was asked for
approvals_for_any(by_action, action_id) ==
    IF DOMAIN by_action = {} THEN <<>>
    ELSE by_action[CHOOSE id \in DOMAIN by_action : TRUE]

\* a lookup that falls back on another action_id's list when there is none
approvals_for_fallback(by_action, action_id) ==
    IF action_id \in DOMAIN by_action THEN by_action[action_id]
    ELSE approvals_for_any(by_action, action_id)

\* self._approvals_by_action.get(call.action_id, [])
approvals_for(by_action, action_id) == Get(by_action, action_id, <<>>)

\* a "not approvals" that wants exactly one sign-off
NoApprovals_unless_one(approvals) == Len(approvals) # 1

\* "not approvals"
NoApprovals(approvals) == approvals = <<>>

\* int(x): the int itself, ValueError on a str that is no number
IntOf(x) == IF "int" \in DOMAIN x THEN [raised |-> FALSE, v |-> x.int]
            ELSE [raised |-> TRUE]

Returns(evalr) == [raised |-> FALSE, evalr |-> evalr]
Raises == [raised |-> TRUE]

\* a domain lookup that takes every address for an in-house one
DomainOf_in_house(to) == AllowDomain

\* to.split("@")[-1] if "@" in to else ""
DomainOf(to) == IF Len(to) >= 2 THEN to[Len(to)] ELSE ""

evaluate(by_action, call) ==
    LET approvals == approvals_for(by_action, call.action_id) IN
    IF call.system = "stripe" /\ call.operation = "payment.execute" THEN
        LET amt == IntOf(Get(call.params, "amount_usd", PyInt(0))) IN
        IF amt.raised THEN Raises
        ELSE IF amt.v > PaymentThreshold /\ NoApprovals(approvals) THEN
            Returns(NuvallaEval("REQUIRE_APPROVAL",
                <<"Payment $", amt.v, " requires CFO approval">>, FALSE, 1,
                [policy |-> "payment_threshold", amount_usd |-> amt.v]))
        ELSE
            Returns(NuvallaEval("COMMIT",
                <<"Payment $", amt.v, " allowed (policy ok)">>, TRUE, 0,
                [policy |-> "payment_threshold", amount_usd |-> amt.v,
                 approvals |-> approvals]))
    ELSE IF call.system = "netsuite" /\ call.operation = "vendor.create" THEN
        IF ~Get(call.params, "kyc_passed", FALSE) THEN
            Returns(NuvallaEval("BLOCK",
                <<"Vendor creation blocked: KYC not passed">>, FALSE, 0,
                [policy |-> "vendor_kyc_required"]))
        ELSE
            Returns(NuvallaEval("COMMIT",
                <<"Vendor creation allowed: KYC passed">>, TRUE, 0,
                [policy |-> "vendor_kyc_required"]))
    ELSE IF call.system = "m365" /\ call.operation = "email.send" THEN
        LET to == Get(call.params, "to", <<"">>)
            contains_phi == Get(call.params, "contains_phi", FALSE)
            domain == DomainOf(to)
        IN
        IF contains_phi /\ domain # AllowDomain THEN
            Returns(NuvallaEval("BLOCK",
                <<"Email blocked: external PHI (HIPAA rule)">>, FALSE, 0,
                [policy |-> "hipaa_no_external_phi", to |-> to]))
        ELSE IF domain # AllowDomain THEN
            Returns(NuvallaEval("BLOCK",
                <<"Email blocked: domain not allowlisted">>, FALSE, 0,
                [policy |-> "email_allowlist", to |-> to]))
        ELSE
            Returns(NuvallaEval("COMMIT",
                <<"Email allowed (domain allowlist ok)">>, TRUE, 0,
                [policy |-> "email_allowlist", to |-> to]))
    ELSE IF call.system = "ehr" /\ call.operation = "medication.order" THEN
        IF NoApprovals(approvals) THEN
            Returns(NuvallaEval("REQUIRE_APPROVAL",
                <<"Medication order requires attending sign-off">>, FALSE, 1,
                [policy |-> "ehr_attending_signoff"]))
        ELSE
            Returns(NuvallaEval("COMMIT",
                <<"Medication order approved and allowed">>, TRUE, 0,
                [policy |-> "ehr_attending_signoff",
                 approvals |-> approvals]))
    ELSE
        Returns(NuvallaEval("COMMIT",
            <<"Allowed (no matching restrictive policy)">>, TRUE, 0,
            [policy |-> "default_allow"]))

\* What a hook that replaces NuvallaHook ("Replace this class with calls into
\* your Nuvalla engine") may hand to the loop: any NuvallaEval, or an exception.
EngineEvals ==
    { NuvallaEval(d, <<"engine">>, c, IF d = "REQUIRE_APPROVAL" THEN 1 ELSE 0,
                  [policy |-> "engine"]) : d \in Decisions, c \in BOOLEAN }

HookOutcomes(h, by_action, call) ==
    IF h = "builtin" THEN {evaluate(by_action, call)}
    ELSE {Returns(e) : e \in EngineEvals} \cup {Raises}

-----------------------------------------------------------------------------
(* One iteration of the loops of Agent_Misbehavior_Replay.py *)

Step(kind, call, ms, raised, evalr0, evalr, exec_result, undo_res, ops) ==
    [kind |-> kind, call |-> call, systems |-> ms, raised |-> raised,
     evalr0 |-> evalr0, evalr |-> evalr, exec_result |-> exec_result,
     undo_res |-> undo_res, ops |-> ops]

\* run_trace_direct: result = systems.execute_direct(call)
direct_iteration(ms, call, uuid, now) ==
    LET ex == execute_direct(ms, call, uuid, now) IN
    Step("direct", call, ex.systems, FALSE, None, None, ex.result, None,
         <<"execute">>)

\* a gate that only holds back BLOCK
CommitGate_not_block(evalr) == evalr.decision # "BLOCK"

\* a gate that forgets commit_allowed
CommitGate_decision_only(evalr) == evalr.decision = "COMMIT"

\* if evalr.decision == Decision.COMMIT and evalr.commit_allowed
\* a gate that lets a pending decision through as well
CommitGate_pending_too(evalr) ==
    evalr.decision \in {"COMMIT", "REQUIRE_APPROVAL"}

CommitGate(evalr) == evalr.decision = "COMMIT" /\ evalr.commit_allowed

\* bool(call.params.get("force_post_commit_failure", False))
PostCommitFailure(call) ==
    Get(call.params, "force_post_commit_failure", FALSE)

\* a loop that keeps the COMMIT evalr after the compensating undo
UndoEval_keep(evalr, undo_res) == evalr

\* the NuvallaEval that replaces evalr after the compensating undo
UndoEval(evalr, undo_res) ==
    NuvallaEval("UNDO",
        <<"Post-commit failure detected; compensating undo executed">>, FALSE, 0,
        Merge(evalr.receipt,
              [post_commit_failure |-> TRUE, undo |-> undo_res]))

\* run_trace_with_nuvalla, lines 343-357: what the loop does with the evalr
\* that hook.evaluate returned
\* a loop body that compensates a call it did not let through
nuvalla_gated_undo_ungated(ms, call, evalr, uuid, now) ==
    IF CommitGate(evalr)
    THEN LET ex == execute_direct(ms, call, uuid, now) IN
         IF PostCommitFailure(call)
         THEN LET un == undo(ex.systems, call, ex.result.external_id) IN
              Step("nuvalla", call, un.systems, FALSE, evalr,
                   UndoEval(evalr, un.result), ex.result, un.result,
                   <<"evaluate", "execute", "undo">>)
         ELSE Step("nuvalla", call, ex.systems, FALSE, evalr, evalr,
                   ex.result, None, <<"evaluate", "execute">>)
    ELSE IF PostCommitFailure(call)
               /\ call.action_id \in DOMAIN ms.idempotency
    THEN LET un == undo(ms, call, ms.idempotency[call.action_id]) IN
         Step("nuvalla", call, un.systems, FALSE, evalr, evalr, None,
              un.result, <<"evaluate", "undo">>)
    ELSE Step("nuvalla", call, ms, FALSE, evalr, evalr, None, None,
              <<"evaluate">>)

nuvalla_gated(ms, call, evalr, uuid, now) ==
    IF CommitGate(evalr)
    THEN LET ex == execute_direct(ms, call, uuid, now) IN
         IF PostCommitFailure(call)
         THEN LET un == undo(ex.systems, call, ex.result.external_id) IN
              Step("nuvalla", call, un.systems, FALSE, evalr,
                   UndoEval(evalr, un.result), ex.result, un.result,
                   <<"evaluate", "execute", "undo">>)
         ELSE Step("nuvalla", call, ex.systems, FALSE, evalr, evalr,
                   ex.result, None, <<"evaluate", "execute">>)
    ELSE Step("nuvalla", call, ms, FALSE, evalr, evalr, None, None,
              <<"evaluate">>)

\* a loop that asks the hook a second time when it raised
nuvalla_iteration_retry(ms, call, out, uuid, now) ==
    IF out.raised
    THEN Step("nuvalla", call, ms, TRUE, None, None, None, None,
              <<"evaluate", "evaluate">>)
    ELSE nuvalla_gated(ms, call, out.evalr, uuid, now)

\* a loop that treats an exception of the hook as permission
nuvalla_iteration_fail_open(ms, call, out, uuid, now) ==
    IF out.raised
    THEN LET ex == execute_direct(ms, call, uuid, now) IN
         Step("nuvalla", call, ex.systems, TRUE, None, None, ex.result, None,
              <<"evaluate", "execute">>)
    ELSE nuvalla_gated(ms, call, out.evalr, uuid, now)

\* run_trace_with_nuvalla, the body of "for call in trace.tool_calls";
\* out is what hook.evaluate(call) did: returned an evalr, or raised, and an
\* exception leaves the loop before anything else is done
nuvalla_iteration(ms, call, out, uuid, now) ==
    IF out.raised
    THEN Step("nuvalla", call, ms, TRUE, None, None, None, None,
              <<"evaluate">>)
    ELSE nuvalla_gated(ms, call, out.evalr, uuid, now)

-----------------------------------------------------------------------------
(* FINTECH_ONLY.py: MockSystems, NuvallaAdapter, run_fintech_replay *)

FinDecisions == {"COMMIT", "BLOCK", "PENDING_APPROVAL", "UNDO"}
FinStatuses == {"success", "blocked", "pending_approval", "failed"}

FinMockSystems == [state |-> EmptyDict, action_to_external |-> EmptyDict]

NuvallaReceipt(decision, status, message, receipt) ==
    [decision |-> decision, status |-> status, message |-> message,
     receipt |-> receipt]

fin_new_id(system, uuid) == <<system, uuid>>

fin_execute(ms, call, uuid, now) ==
    IF call.action_id \in DOMAIN ms.action_to_external
    THEN [systems |-> ms,
          result  |-> [ok |-> TRUE,
                       external_id |-> ms.action_to_external[call.action_id],
                       idempotent_replay |-> TRUE]]
    ELSE LET ext == fin_new_id(call.system, uuid)
             rec == [operation |-> call.operation, params |-> call.params,
                     created_at_ms |-> now, deleted |-> FALSE]
         IN  [systems |-> [state |-> SetRecord(ms.state, call.system, ext, rec),
                           action_to_external |->
                               Put(ms.action_to_external, call.action_id, ext)],
              result  |-> [ok |-> TRUE, external_id |-> ext,
                           idempotent_replay |-> FALSE]]

fin_undo(ms, call, external_id) ==
    LET rec == Get(Get(ms.state, call.system, EmptyDict), external_id, None)
    IN  IF rec = None \/ DOMAIN rec = {}
        THEN [systems |-> ms,
              result  |-> [ok |-> FALSE, error |-> "record_not_found"]]
        ELSE [systems |-> [ms EXCEPT
                  !.state[call.system][external_id].deleted = TRUE],
              result  |-> [ok |-> TRUE, undo_id |-> <<"undo", external_id>>]]

\* NuvallaAdapter.intercept as shipped raises NotImplementedError; wired to an
\* engine it returns a NuvallaReceipt of that engine's choosing.
AdapterOutcomes ==
    { Returns(NuvallaReceipt(d, st, <<"engine">>, [policy |-> "engine"])) :
          d \in FinDecisions, st \in FinStatuses } \cup {Raises}

\* if receipt.decision == Decision.COMMIT and receipt.status == "success"
FinCommitGate(receipt) ==
    receipt.decision = "COMMIT" /\ receipt.status = "success"

\* run_fintech_replay, the body of "for idx, call in enumerate(...)" from the
\* intercept on; the receipt printed is the adapter's, undo_res is dropped
fintech_iteration(ms, call, out, uuid, now) ==
    IF out.raised
    THEN Step("fintech", call, ms, TRUE, None, None, None, None,
              <<"evaluate">>)
    ELSE IF FinCommitGate(out.evalr)
    THEN LET ex == fin_execute(ms, call, uuid, now) IN
         IF PostCommitFailure(call)
         THEN LET un == fin_undo(ex.systems, call, ex.result.external_id) IN
              Step("fintech", call, un.systems, FALSE, out.evalr, out.evalr,
                   ex.result, un.result, <<"evaluate", "execute", "undo">>)
         ELSE Step("fintech", call, ex.systems, FALSE, out.evalr, out.evalr,
                   ex.result, None, <<"evaluate", "execute">>)
    ELSE Step("fintech", call, ms, FALSE, out.evalr, out.evalr, None, None,
              <<"evaluate">>)

-----------------------------------------------------------------------------
(* What the callers of execute and undo have been handed so far *)

NoAudit == [returned |-> EmptyDict, replays |-> EmptyDict,
            created |-> EmptyDict, undo_ids |-> EmptyDict,
            blocked |-> {}, compensated |-> {},
            approved |-> <<>>, decisions |-> EmptyDict]

\* the (system, external_id) keys of the records of a MockSystems
Records(ms) ==
    UNION { { <<s, e>> : e \in DOMAIN ms.state[s] } : s \in DOMAIN ms.state }

RecordAt(ms, key) == ms.state[key[1]][key[2]]

\* the action_id -> external_id map, under either class's name for it
IdemOf(ms) == IF "idempotency" \in DOMAIN ms THEN ms.idempotency
              ELSE ms.action_to_external

\* audit after an execute call for action_id a that returned `result` and
\* took the instance from `before` to `after`: the external ids returned for
\* a, the idempotent_replay flags in call order, the records that appeared
AuditExecute(au, a, result, before, after) ==
    [au EXCEPT
       !.returned = Put(@, a, Get(@, a, {}) \cup {result.external_id}),
       !.replays  = Put(@, a, Append(Get(@, a, <<>>), result.idempotent_replay)),
       !.created  = Put(@, a, Get(@, a, {}) \cup (Records(after) \ Records(before)))]

\* audit after an undo call for external_id ext that returned `result`: the
\* undo ids handed out for ext, in call order
AuditUndo(au, ext, result) ==
    IF result.ok
    THEN [au EXCEPT !.undo_ids = Put(@, ext, Append(Get(@, ext, <<>>), result.undo_id))]
    ELSE au

\* audit after hook.approve(a): the approvals handed to approve, in call order
AuditApprove(au, a) == [au EXCEPT !.approved = Append(@, a)]

\* the approvals handed to approve for action_id so far, in call order
Submitted(au, action_id) ==
    SelectSeq(au.approved, LAMBDA a : a.action_id = action_id)

\* audit after a governed iteration under the built-in policy h: the calls
\* that ended BLOCK or UNDO, and per call the decisions evaluate returned, in
\* call order, each beside the approvals submitted for the call's action_id
\* by then and their number
AuditVerdict(au, h, step) ==
    IF step.evalr = None \/ h # "builtin" THEN au
    ELSE [au EXCEPT
            !.blocked = IF step.evalr.decision = "BLOCK"
                        THEN @ \cup {step.call} ELSE @,
            !.compensated = IF step.evalr.decision = "UNDO"
                            THEN @ \cup {step.call} ELSE @,
            !.decisions = Put(@, step.call,
                Append(Get(@, step.call, <<>>),
                       [decision  |-> step.evalr0.decision,
                        commit_allowed |-> step.evalr0.commit_allowed,
                        required_approvals |-> step.evalr0.required_approvals,
                        held |-> Submitted(au, step.call.action_id),
                        approvals |-> Len(Submitted(au, step.call.action_id))]))]

AuditStep(au, h, before, step) ==
    LET v == AuditVerdict(au, h, step) IN
    IF step.exec_result = None THEN v
    ELSE LET a == step.call.action_id
             e == AuditExecute(v, a, step.exec_result, before, step.systems)
         IN  IF step.undo_res = None THEN e
             ELSE AuditUndo(e, step.exec_result.external_id, step.undo_res)

\* how earlier submissions of the call had ended when this one began
History(au, call) ==
    [blocked |-> call \in au.blocked, compensated |-> call \in au.compensated]

\* a new id was drawn iff the execute of the step was no replay
Drawn(step) ==
    IF step.exec_result # None /\ ~step.exec_result.idempotent_replay
    THEN 1 ELSE 0

-----------------------------------------------------------------------------
(* The replays as a state machine *)

Init ==
    /\ \E rh \in { <<"direct", "none">>, <<"nuvalla", "builtin">>,
                    <<"nuvalla", "engine">>, <<"fintech", "adapter">> } :
           runner = rh[1] /\ hook = rh[2]
    /\ systems = IF runner = "fintech" THEN FinMockSystems ELSE MockSystems
    /\ uuids = 0
    /\ approvals_by_action = EmptyDict
    /\ nsteps = 0
    /\ last = [kind |-> "init"]
    /\ halted = FALSE
    /\ audit = NoAudit
    /\ threads = EmptyDict
    /\ replay = None

\* what print_step and the print_*_response of an iteration show: the locals
\* of the iteration, beside how earlier submissions of the call had ended
Report(step, history) ==
    [f \in (DOMAIN step \ {"systems"}) \cup {"history"} |->
        IF f = "history" THEN history ELSE step[f]]

\* the replay has tool calls or approvals left
Running ==
    /\ ~halted
    /\ nsteps < (IF hook \in {"engine", "adapter"} THEN MaxEngineSteps
                 ELSE MaxSteps)

Took(step) ==
    /\ systems' = step.systems
    /\ uuids' = uuids + Drawn(step)
    /\ last' = Report(step, History(audit, step.call))
    /\ halted' = step.raised
    /\ audit' = AuditStep(audit, hook, systems, step)
    /\ nsteps' = nsteps + 1

\* run_trace_direct: one tool call of a trace
DirectStep ==
    /\ runner = "direct" /\ Running
    /\ \E call \in Calls :
           Took(direct_iteration(systems, call, uuids + 1, nsteps + 1))
    /\ UNCHANGED <<runner, hook, approvals_by_action, threads, replay>>

\* run_trace_with_nuvalla: "for a in trace.approvals: hook.approve(a)"
Approve ==
    /\ runner = "nuvalla" /\ Running
    /\ \E a \in Approvals :
           /\ approvals_by_action' = approve(approvals_by_action, a)
           /\ last' = [kind |-> "approve", approval |-> a]
           /\ audit' = AuditApprove(audit, a)
    /\ nsteps' = nsteps + 1
    /\ UNCHANGED <<runner, hook, systems, uuids, halted, threads, replay>>

\* run_trace_with_nuvalla: one tool call of a trace
NuvallaStep ==
    /\ runner = "nuvalla" /\ Running
    /\ \E call \in Calls :
         \E out \in HookOutcomes(hook, approvals_by_action, call) :
           Took(nuvalla_iteration(systems, call, out, uuids + 1, nsteps + 1))
    /\ UNCHANGED <<runner, hook, approvals_by_action, threads, replay>>

\* run_fintech_replay: "systems_after = MockSystems()" for the next trace
FintechNewTrace ==
    /\ runner = "fintech" /\ Running
    /\ last.kind = "fintech"
    /\ systems' = FinMockSystems
    /\ audit' = NoAudit
    /\ last' = [kind |-> "newtrace"]
    /\ nsteps' = nsteps + 1
    /\ UNCHANGED <<runner, hook, uuids, approvals_by_action, halted, threads,
                   replay>>

\* run_fintech_replay: one tool call of a trace
FintechStep ==
    /\ runner = "fintech" /\ Running
    /\ \E call \in Calls :
         \E out \in AdapterOutcomes :
           Took(fintech_iteration(systems, call, out, uuids + 1, nsteps + 1))
    /\ UNCHANGED <<runner, hook, approvals_by_action, threads, replay>>

Next ==
    \/ DirectStep
    \/ Approve
    \/ NuvallaStep
    \/ FintechNewTrace
    \/ FintechStep

Spec == Init /\ [][Next]_vars

-----------------------------------------------------------------------------
(* run_fintech_replay on one trace, with the delivery of its                *)
(* approvals_timeline (FINTECH_ONLY.py lines 278-322)                      *)

\* the tool_calls of the sample traces
TraceCalls == {
    <<>>,
    << ToolCall("fin_pay", "ap_agent", "stripe", "payment.execute",
                [amount_usd |-> PyInt(18750)], "txn_fin_1001") >>,
    << ToolCall("fin_pay", "ap_agent", "stripe", "payment.execute",
                [amount_usd |-> PyInt(18750)], "txn_fin_1001"),
       ToolCall("fin_vendor", "ap_agent", "netsuite", "vendor.create",
                [vendor_name |-> "ShadyCo LLC", kyc_passed |-> TRUE,
                 force_post_commit_failure |-> TRUE], "txn_fin_1001") >>
}

\* the step indexes a timeline entry may carry as deliver_after_step
ScheduleSteps == {1, 3}

\* the entries of an approvals_timeline: an Approval as the dataclass makes
\* it, or one that also carries a deliver_after_step attribute
TimelineEntries ==
    LET plain == { Approval("fin_pay", "cfo@acmefinco.com", "CFO", "dashboard"),
                   Approval("fin_vendor", "controller@acmefinco.com",
                            "Controller", "dashboard") }
    IN  { [approval |-> a] : a \in plain }
        \cup { [approval |-> a, deliver_after_step |-> k] :
                   a \in plain, k \in ScheduleSteps }

Timelines ==
    UNION { [1..n -> TimelineEntries] : n \in 0..MaxTimeline }

\* int(getattr(a, "deliver_after_step", 0)) if hasattr(...) else 0
deliver_after(a) ==
    IF "deliver_after_step" \in DOMAIN a THEN a.deliver_after_step ELSE 0

\* approvals_schedule: (deliver_after, a) per timeline entry, in timeline
\* order; an entry stands for its position in the timeline
approvals_schedule(timeline) ==
    [i \in 1..Len(timeline) |-> <<deliver_after(timeline[i]), i>>]

\* a setdefault(step_idx, []) that puts the approval first
index_one_first(by_step, step_idx, appr) ==
    Put(by_step, step_idx, <<appr>> \o Get(by_step, step_idx, <<>>))

\* approvals_by_step.setdefault(step_idx, []).append(appr)
index_one(by_step, step_idx, appr) ==
    Put(by_step, step_idx, Append(Get(by_step, step_idx, <<>>), appr))

RECURSIVE index_from(_, _, _)
index_from(schedule, k, by_step) ==
    IF k > Len(schedule) THEN by_step
    ELSE index_from(schedule, k + 1,
                    index_one(by_step, schedule[k][1], schedule[k][2]))

\* approvals_by_step: step index -> the entries scheduled at it
approvals_by_step(timeline) ==
    index_from(approvals_schedule(timeline), 1, EmptyDict)

\* "for a in approvals_by_step.get(step_idx, []): adapter.submit_approval(a)"
Deliver(rp, step_idx) ==
    rp.delivered \o Get(approvals_by_step(rp.approvals_timeline), step_idx, <<>>)

InitReplay ==
    /\ runner = "fintech_trace" /\ hook = "adapter"
    /\ systems = FinMockSystems
    /\ uuids = 0
    /\ approvals_by_action = EmptyDict
    /\ nsteps = 0
    /\ last = [kind |-> "init"]
    /\ halted = FALSE
    /\ audit = NoAudit
    /\ threads = EmptyDict
    /\ \E calls \in TraceCalls : \E timeline \in Timelines :
           replay = [tool_calls |-> calls, approvals_timeline |-> timeline,
                     idx |-> 0, delivered |-> <<>>, done |-> FALSE]

\* one iteration of "for idx, call in enumerate(trace.tool_calls, start=1)"
ReplayIteration ==
    /\ ~halted /\ ~replay.done
    /\ replay.idx < Len(replay.tool_calls)
    /\ LET idx == replay.idx + 1 IN
       /\ replay' = [replay EXCEPT !.idx = idx,
                                   !.delivered = Deliver(replay, idx - 1)]
       /\ \E out \in AdapterOutcomes :
              Took(fintech_iteration(systems, replay.tool_calls[idx], out,
                                     uuids + 1, nsteps + 1))
    /\ UNCHANGED <<runner, hook, approvals_by_action, threads>>

\* "Deliver approvals after last step (if any)", and the trace is over
ReplayAfterLoop ==
    /\ ~halted /\ ~replay.done
    /\ replay.idx = Len(replay.tool_calls)
    /\ replay' = [replay EXCEPT
                    !.delivered = Deliver(replay, Len(replay.tool_calls)),
                    !.done = TRUE]
    /\ last' = [kind |-> "summary"]
    /\ nsteps' = nsteps + 1
    /\ UNCHANGED <<runner, hook, systems, uuids, approvals_by_action, halted,
                   audit, threads>>

NextReplay ==
    \/ ReplayIteration
    \/ ReplayAfterLoop

SpecReplay == InitReplay /\ [][NextReplay]_vars

-----------------------------------------------------------------------------
(* run_trace_with_nuvalla over the traces of build_traces, on one hook and *)
(* one MockSystems as main() sets them up (Agent_Misbehavior_Replay.py     *)
(* lines 328-362, 369-504, 519-523)                                        *)

ScenarioTrace(name, tool_calls, approvals) ==
    [name |-> name, tool_calls |-> tool_calls, approvals |-> approvals]

build_traces == <<
    ScenarioTrace("Fintech: Fraud-ish vendor invoice + external audit email",
        << ToolCall("fin_t1_vendor", "ap_agent", "netsuite", "vendor.create",
                    [vendor_name |-> "ShadyCo LLC", kyc_passed |-> FALSE],
                    "txn_fin_1001"),
           ToolCall("fin_t1_pay", "ap_agent", "stripe", "payment.execute",
                    [amount_usd |-> PyInt(18750), to_vendor |-> "ShadyCo LLC"],
                    "txn_fin_1001"),
           ToolCall("fin_t1_email", "ap_agent", "m365", "email.send",
                    [to |-> <<"auditor", "big4.com">>, contains_phi |-> FALSE],
                    "txn_fin_1001") >>,
        << Approval("fin_t1_pay", "cfo@acmefinco.com", "CFO", "dashboard") >>),
    ScenarioTrace("Fintech: Large payment requires approval",
        << ToolCall("fin_t2_pay", "finance_agent", "stripe", "payment.execute",
                    [amount_usd |-> PyInt(25000),
                     to_vendor |-> "DataProviderInc"], "txn_fin_2002") >>,
        << Approval("fin_t2_pay", "cfo@acmefinco.com", "CFO", "dashboard") >>),
    ScenarioTrace("Healthcare: PHI email + medication order",
        << ToolCall("hlth_t1_email_phi", "clinical_agent", "m365", "email.send",
                    [to |-> <<"patient", "gmail.com">>, contains_phi |-> TRUE],
                    "txn_hlth_3003"),
           ToolCall("hlth_t1_med", "clinical_agent", "ehr", "medication.order",
                    [patient_id |-> "PT-10012", drug |-> "Heparin"],
                    "txn_hlth_3003") >>,
        << Approval("hlth_t1_med", "attending_md@hospital.org", "AttendingMD",
                    "ehr_signoff") >>),
    ScenarioTrace("Insurance: Claims reimbursement with compensation",
        << ToolCall("ins_t1_pay", "claims_agent", "stripe", "payment.execute",
                    [amount_usd |-> PyInt(2400),
                     to_vendor |-> "MemberReimbursement",
                     force_post_commit_failure |-> TRUE], "txn_ins_4004") >>,
        << >>),
    ScenarioTrace("Fintech: Idempotent retry replay (same action_id twice)",
        << ToolCall("fin_t5_pay", "finance_agent", "stripe", "payment.execute",
                    [amount_usd |-> PyInt(850), to_vendor |-> "CloudHostingCo"],
                    "txn_fin_5005"),
           ToolCall("fin_t5_pay", "finance_agent", "stripe", "payment.execute",
                    [amount_usd |-> PyInt(850), to_vendor |-> "CloudHostingCo"],
                    "txn_fin_5005") >>,
        << >>)
>>

\* "for a in trace.approvals: hook.approve(a)"
RECURSIVE approve_all(_, _)
approve_all(by_action, approvals) ==
    IF approvals = <<>> THEN by_action
    ELSE approve_all(approve(by_action, Head(approvals)), Tail(approvals))

RECURSIVE AuditApproveAll(_, _)
AuditApproveAll(au, approvals) ==
    IF approvals = <<>> THEN au
    ELSE AuditApproveAll(AuditApprove(au, Head(approvals)), Tail(approvals))

InitMain ==
    /\ runner = "main" /\ hook = "builtin"
    /\ systems = MockSystems
    /\ uuids = 0
    /\ approvals_by_action = EmptyDict
    /\ nsteps = 0
    /\ last = [kind |-> "init"]
    /\ halted = FALSE
    /\ audit = NoAudit
    /\ threads = EmptyDict
    /\ replay = [traces |-> 0, trace |-> None, pos |-> 0]

\* no call of run_trace_with_nuvalla is under way
BetweenTraces ==
    IF replay.trace = None THEN TRUE
    ELSE replay.pos = Len(replay.trace.tool_calls)

\* run_trace_with_nuvalla(t, systems_nuvalla, hook) up to its tool-call loop:
\* the approvals of the trace are fed upfront
TraceStart ==
    /\ ~halted /\ BetweenTraces
    /\ replay.traces < MaxTraces
    /\ \E n \in 1..Len(build_traces) :
           LET t == build_traces[n] IN
           /\ replay' = [traces |-> replay.traces + 1, trace |-> t, pos |-> 0]
           /\ approvals_by_action' = approve_all(approvals_by_action, t.approvals)
           /\ audit' = AuditApproveAll(audit, t.approvals)
           /\ last' = [kind |-> "trace", name |-> t.name]
    /\ nsteps' = nsteps + 1
    /\ UNCHANGED <<runner, hook, systems, uuids, halted, threads>>

\* one iteration of "for call in trace.tool_calls"
TraceCall ==
    /\ ~halted /\ ~BetweenTraces
    /\ LET call == replay.trace.tool_calls[replay.pos + 1] IN
       \E out \in HookOutcomes(hook, approvals_by_action, call) :
           Took(nuvalla_iteration(systems, call, out, uuids + 1, nsteps + 1))
    /\ replay' = [replay EXCEPT !.pos = @ + 1]
    /\ UNCHANGED <<runner, hook, approvals_by_action, threads>>

NextMain ==
    \/ TraceStart
    \/ TraceCall

SpecMain == InitMain /\ [][NextMain]_vars

-----------------------------------------------------------------------------
(* Concurrent callers of MockSystems.execute_direct on one instance: each  *)
(* thread runs the statements of lines 109-122 in order, and the           *)
(* interpreter may switch threads between any two of them.                 *)

ThreadIds == {"t1", "t2"}

InitConc ==
    /\ runner = "threads" /\ hook = "none"
    /\ systems = MockSystems
    /\ uuids = 0
    /\ approvals_by_action = EmptyDict
    /\ nsteps = 0
    /\ last = [kind |-> "init"]
    /\ halted = FALSE
    /\ audit = NoAudit
    /\ threads = EmptyDict
    /\ replay = None

ThreadFrame ==
    <<runner, hook, approvals_by_action, nsteps, last, halted, replay>>

\* a thread enters execute_direct(call)
ThreadCall ==
    \E t \in ThreadIds \ DOMAIN threads : \E call \in Calls :
        /\ threads' = Put(threads, t, [pc |-> "check", call |-> call])
        /\ UNCHANGED <<systems, uuids, audit>>
        /\ UNCHANGED ThreadFrame

\* if call.action_id in self.idempotency: return the replay
ThreadCheck ==
    \E t \in DOMAIN threads :
        /\ threads[t].pc = "check"
        /\ LET a == threads[t].call.action_id IN
           IF a \in DOMAIN systems.idempotency
           THEN LET result == [ok |-> TRUE,
                               external_id |-> systems.idempotency[a],
                               idempotent_replay |-> TRUE]
                IN /\ threads' = [threads EXCEPT ![t] =
                          [pc |-> "done", call |-> @.call, result |-> result]]
                   /\ audit' = AuditExecute(audit, a, result, systems, systems)
           ELSE /\ threads' = [threads EXCEPT ![t].pc = "new_id"]
                /\ UNCHANGED audit
        /\ UNCHANGED <<systems, uuids>>
        /\ UNCHANGED ThreadFrame

\* ext_id = self._new_id(call.system)
ThreadNewId ==
    \E t \in DOMAIN threads :
        /\ threads[t].pc = "new_id"
        /\ uuids' = uuids + 1
        /\ threads' = [threads EXCEPT ![t] =
               [pc |-> "write_map", call |-> @.call,
                ext_id |-> new_id(@.call.system, uuids + 1)]]
        /\ UNCHANGED <<systems, audit>>
        /\ UNCHANGED ThreadFrame

\* self.idempotency[call.action_id] = ext_id
ThreadWriteMap ==
    \E t \in DOMAIN threads :
        /\ threads[t].pc = "write_map"
        /\ systems' = [systems EXCEPT !.idempotency =
               Put(@, threads[t].call.action_id, threads[t].ext_id)]
        /\ threads' = [threads EXCEPT ![t].pc = "write_state"]
        /\ UNCHANGED <<uuids, audit>>
        /\ UNCHANGED ThreadFrame

\* self.state.setdefault(call.system, {})[ext_id] = {...}; return
ThreadWriteState ==
    \E t \in DOMAIN threads :
        /\ threads[t].pc = "write_state"
        /\ LET call == threads[t].call
               ext_id == threads[t].ext_id
               rec == [operation |-> call.operation, params |-> call.params,
                       created_at_ms |-> nsteps, deleted |-> FALSE]
               after == [systems EXCEPT !.state =
                             SetRecord(@, call.system, ext_id, rec)]
               result == [ok |-> TRUE, external_id |-> ext_id,
                          idempotent_replay |-> FALSE]
           IN /\ systems' = after
              /\ threads' = [threads EXCEPT ![t] =
                     [pc |-> "done", call |-> call, result |-> result]]
              /\ audit' = AuditExecute(audit, call.action_id, result, systems,
                                       after)
        /\ UNCHANGED uuids
        /\ UNCHANGED ThreadFrame

NextConc ==
    \/ ThreadCall
    \/ ThreadCheck
    \/ ThreadNewId
    \/ ThreadWriteMap
    \/ ThreadWriteState

SpecConc == InitConc /\ [][NextConc]_vars

-----------------------------------------------------------------------------
(* Concurrent callers of NuvallaHook.approve on one hook: line 166 is two  *)
(* calls, dict.setdefault and then list.append on the list it returned;    *)
(* each is one step of the interpreter, which may switch threads between.  *)

ApproverIds == {"a1", "a2", "a3"}

\* a "[action_id] = []" in place of setdefault
setdefault_overwrite(by_action, action_id) ==
    Put(by_action, action_id, <<>>)

\* self._approvals_by_action.setdefault(approval.action_id, [])
setdefault(by_action, action_id) ==
    IF action_id \in DOMAIN by_action THEN by_action
    ELSE Put(by_action, action_id, <<>>)

\* .append(approval) on the list object the dict holds for action_id
list_append(by_action, action_id, approval) ==
    Put(by_action, action_id, Append(by_action[action_id], approval))

InitApprove ==
    /\ runner = "approvers" /\ hook = "builtin"
    /\ systems = MockSystems
    /\ uuids = 0
    /\ approvals_by_action = EmptyDict
    /\ nsteps = 0
    /\ last = [kind |-> "init"]
    /\ halted = FALSE
    /\ audit = NoAudit
    /\ threads = EmptyDict
    /\ replay = None

ApproverFrame == <<runner, hook, systems, uuids, nsteps, last, halted, replay>>

\* a thread enters approve(approval) and runs setdefault; `seen` is how long
\* the list was when the thread got hold of it
ApproverSetdefault ==
    \E t \in ApproverIds \ DOMAIN threads : \E a \in Approvals :
        /\ approvals_by_action' = setdefault(approvals_by_action, a.action_id)
        /\ threads' = Put(threads, t,
               [pc |-> "append", approval |-> a,
                seen |-> Len(approvals_for(approvals_by_action, a.action_id))])
        /\ UNCHANGED audit
        /\ UNCHANGED ApproverFrame

\* the thread runs append and returns
ApproverAppend ==
    \E t \in DOMAIN threads :
        /\ threads[t].pc = "append"
        /\ LET a == threads[t].approval IN
           /\ approvals_by_action' =
                  list_append(approvals_by_action, a.action_id, a)
           /\ audit' = AuditApprove(audit, a)
        /\ threads' = [threads EXCEPT ![t].pc = "done"]
        /\ UNCHANGED ApproverFrame

NextApprove ==
    \/ ApproverSetdefault
    \/ ApproverAppend

SpecApprove == InitApprove /\ [][NextApprove]_vars

-----------------------------------------------------------------------------
(* The mock servers: ledgerworks_demo_server.py, finops_mock_server.py and *)
(* fintech_trust_mock_server.py.  `systems` holds STATE and IDEMPOTENCY;   *)
(* a dict that a handler builds is an object, STATE and the cached         *)
(* receipts hold references to it, and a response body is the JSON of the  *)
(* receipt at the time it is sent.                                         *)

Servers == {"ledgerworks", "finops", "trustpay"}

\* the routes of each server that are modelled
Routes(server) ==
    CASE server = "ledgerworks" ->
           { "/api/v1/vendors/create",
             "/api/v1/vendors/bank-change/request",
             "/api/v1/ap/invoices/create", "/api/v1/ap/invoices/approve",
             "/api/v1/ap/payments/create" }
      [] server = "finops" ->
           { "/api/v1/audit/append", "/api/v1/ap/invoices/create",
             "/api/v1/ap/invoices/approve", "/api/v1/ap/payments/create" }
      [] server = "trustpay" ->
           { "/api/v1/audit/append", "/api/v1/payments/transfer",
             "/api/v1/payouts/create" }

\* the name of the collection of invoice approvals in STATE
ApprovalsOf(server) ==
    IF server = "finops" THEN "invoice_approvals" ELSE "approvals"

\* the dict STATE as the module creates it (the collections the routes above use)
NewState(server) ==
    CASE server = "ledgerworks" ->
           [audit |-> <<>>, vendors |-> EmptyDict, invoices |-> EmptyDict,
            approvals |-> EmptyDict, payments |-> EmptyDict]
      [] server = "finops" ->
           [audit |-> <<>>, invoices |-> EmptyDict,
            invoice_approvals |-> EmptyDict, payments |-> EmptyDict]
      [] server = "trustpay" ->
           [audit |-> <<>>, accounts |-> EmptyDict, transfers |-> EmptyDict,
            payouts |-> EmptyDict]

MockServer(server) ==
    [state |-> NewState(server), IDEMPOTENCY |-> EmptyDict, objects |-> EmptyDict]

\* 672.69 as json.loads reads it: the float nearest to it, an amount in
\* cents as gen_transfer draws them (round(rnd.uniform(...), 2))
Cents67269 == PyFloat(336, 1447034, 3690988)

\* the payloads the sample requests carry, per route
Payloads(path) ==
    CASE path = "/api/v1/audit/append" -> { [note |-> "demo"] }
      [] path = "/api/v1/vendors/create" ->
           { [vendor_id |-> "vnd_A", name |-> "Acme Supplies"] }
      [] path = "/api/v1/vendors/bank-change/request" ->
           { [vendor_id |-> "vnd_A", requested_bank_last4 |-> "9911"] }
      [] path = "/api/v1/ap/invoices/create" ->
           { [invoice_id |-> "inv_A", amount_usd |-> PyInt(500)] }
      [] path = "/api/v1/ap/invoices/approve" ->
           { [invoice_id |-> "inv_A", decision |-> "approved"] }
      [] path = "/api/v1/ap/payments/create" ->
           { [invoice_id |-> "inv_A", amount_usd |-> PyInt(500)] }
      [] path = "/api/v1/payments/transfer" ->
           { [amount_usd |-> PyInt(100), from_account |-> "account_1",
              to_account |-> "account_2"],
             [amount_usd |-> Cents67269, from_account |-> "account_1",
              to_account |-> "account_2"] }
      [] path = "/api/v1/payouts/create" -> { [amount_usd |-> PyInt(100)] }

\* the values of the Idempotency-Key header: absent, or a key
IdempotencyKeys == { None, [str |-> "k1"] }

\* the values of the Authorization header: absent, a bearer token, or
\* another scheme; a value is the sequence of its scheme and its token
Authorizations == { None, [str |-> <<"Bearer ", "demo">>],
                    [str |-> <<"Basic ", "demo">>] }

Request(path, authorization, idempotency_key, payload) ==
    [method |-> "POST", path |-> path, authorization |-> authorization,
     idempotency_key |-> idempotency_key, payload |-> payload]

\* the sample requests: every route with and without a key from a caller
\* that authenticates, and with a key from one that does not
Requests(server) ==
    LET headers == { h \in Authorizations \X IdempotencyKeys :
                         h[1] = [str |-> <<"Bearer ", "demo">>] \/ h[2] # None }
    IN  UNION { { Request(path, h[1], h[2], pl) :
                      h \in headers, pl \in Payloads(path) } :
                path \in Routes(server) }

\* require_auth: the header is there and starts with "Bearer "
Authorized(authorization) ==
    /\ authorization # None
    /\ authorization.str[1] = "Bearer "

\* "if not idempotency_key"
NoKey(idempotency_key) ==
    IF idempotency_key = None THEN TRUE ELSE idempotency_key.str = ""

\* k = (request.method, str(request.url.path), idempotency_key)
IdemKey(req) == <<req.method, req.path, req.idempotency_key.str>>

\* a lookup that matches the method and the key, whatever the path
maybe_return_idempotent_any_path(srv, req) ==
    IF NoKey(req.idempotency_key) THEN None
    ELSE LET hits == { k \in DOMAIN srv.IDEMPOTENCY :
                         k[1] = req.method /\ k[3] = req.idempotency_key.str }
         IN  IF hits = {} THEN None
             ELSE srv.IDEMPOTENCY[CHOOSE k \in hits : TRUE]

maybe_return_idempotent(srv, req) ==
    IF NoKey(req.idempotency_key) THEN None
    ELSE Get(srv.IDEMPOTENCY, IdemKey(req), None)

\* a store that keeps no receipt
store_idempotent_never(srv, req, status_code, payload) == srv

store_idempotent(srv, req, status_code, payload) ==
    IF NoKey(req.idempotency_key) THEN srv
    ELSE [srv EXCEPT !.IDEMPOTENCY = Put(@, IdemKey(req), <<status_code, payload>>)]

\* receipt(...): result is a reference to the dict the handler built
receipt(domain, operation, req, status, result, uuid, now) ==
    [receipt_id |-> new_id("rcpt", uuid), received_at_ms |-> now,
     domain |-> domain, operation |-> operation, action_id |-> "act_demo",
     idempotency_key |-> req.idempotency_key, status |-> status,
     result |-> result]

\* the JSON that goes out for a receipt: each reference is followed now
Body(srv, resp) == [resp EXCEPT !.result = srv.objects[@]]

\* what a handler hands back: the server afterwards, the HTTP status and
\* body, and how many ids it drew
Response(srv, status_code, body, drawn) ==
    [srv |-> srv, status_code |-> status_code, body |-> body, drawn |-> drawn]

\* raise HTTPException(status_code, detail)
HTTPException(srv, status_code, detail) ==
    Response(srv, status_code, [detail |-> detail], 0)

\* obj = {...}; STATE[collection][id] = obj; resp = receipt(result=obj);
\* store_idempotent(resp); return resp      (the tail of a creating handler)
Stored(srv, req, collection, id, obj, domain, operation, status, code, uuid, now, drawn) ==
    LET ref == <<"obj", now>>
        s1 == [srv EXCEPT !.objects = Put(@, ref, obj),
                          !.state[collection] = Put(@, id, ref)]
        resp == receipt(domain, operation, req, status, ref, uuid, now)
        s2 == store_idempotent(s1, req, code, resp)
    IN  Response(s2, 200, Body(s2, resp), drawn)

\* audit_append, after the idempotency lookup
audit_append(srv, req, uuid, now) ==
    LET event == [event_id |-> new_id("evt", uuid), at_ms |-> now,
                  action_id |-> "act_demo", payload |-> req.payload]
        s1 == [srv EXCEPT !.state.audit = Append(@, event)]
        ref == <<"obj", now>>
        s2 == [s1 EXCEPT !.objects = Put(@, ref,
                   [event_id |-> event.event_id,
                    audit_size |-> Len(s1.state.audit)])]
        resp == receipt("audit", "append", req, "ok", ref, uuid + 1, now)
        s3 == store_idempotent(s2, req, 200, resp)
    IN  Response(s3, 200, Body(s3, resp), 2)

\* vendor_create (ledgerworks): vendor_id = p.get("vendor_id") or new_id("vnd")
vendor_create(srv, req, uuid, now) ==
    LET p == req.payload
        given == "vendor_id" \in DOMAIN p
        vendor_id == IF given THEN p.vendor_id ELSE new_id("vnd", uuid)
        drawn == IF given THEN 0 ELSE 1
        vendor == [vendor_id |-> vendor_id, name |-> Get(p, "name", None),
                   status |-> "active", created_at_ms |-> now]
    IN  Stored(srv, req, "vendors", vendor_id, vendor, "vendors", "create",
               "ok", 200, uuid + drawn, now, drawn + 1)

\* vendor_bank_change_request (ledgerworks)
vendor_bank_change_request(srv, req, uuid, now) ==
    LET p == req.payload
        vendor_id == Get(p, "vendor_id", None)
    IN  IF vendor_id \notin DOMAIN srv.state.vendors
        THEN HTTPException(srv, 404, "vendor_id not found")
        ELSE LET change_req ==
                     [bank_change_request_id |-> new_id("bankchg", uuid),
                      vendor_id |-> vendor_id,
                      requested_bank_last4 |->
                          Get(p, "requested_bank_last4", None),
                      status |-> "requested", requested_at_ms |-> now]
                 vref == srv.state.vendors[vendor_id]
                 vendor == srv.objects[vref]
                 ref == <<"obj", now>>
                 s1 == [srv EXCEPT !.objects =
                            Put(Put(@, vref,
                                    Put(vendor, "bank_change_requests",
                                        Append(Get(vendor,
                                                   "bank_change_requests",
                                                   <<>>), change_req))),
                                ref, change_req)]
                 resp == receipt("vendors", "bank-change.request", req,
                                 "accepted", ref, uuid + 1, now)
                 s2 == store_idempotent(s1, req, 202, resp)
             IN  Response(s2, 200, Body(s2, resp), 2)

\* ap_invoice_create (ledgerworks, finops): the id comes from the payload
\* when it has one
ap_invoice_create(srv, req, uuid, now) ==
    LET p == req.payload
        given == "invoice_id" \in DOMAIN p
        invoice_id == IF given THEN p.invoice_id ELSE new_id("inv", uuid)
        drawn == IF given THEN 0 ELSE 1
        invoice == [invoice_id |-> invoice_id,
                    amount_usd |-> float(Get(p, "amount_usd", PyInt(0))),
                    status |-> "submitted", created_at_ms |-> now]
    IN  Stored(srv, req, "invoices", invoice_id, invoice, "ap",
               "invoices.create", "accepted", 202, uuid + drawn, now,
               drawn + 1)

\* an ap_invoice_approve that stores the approval before it looks for the
\* invoice
ap_invoice_approve_store_first(srv, req, approvals, uuid, now) ==
    LET p == req.payload
        invoice_id == Get(p, "invoice_id", None)
        approval_id == new_id("appr", uuid)
        decision == Get(p, "decision", "approved")
        approval == [approval_id |-> approval_id, invoice_id |-> invoice_id,
                     decision |-> decision, decided_at_ms |-> now]
    IN  IF invoice_id \notin DOMAIN srv.state.invoices
        THEN LET ref == <<"obj", now>>
                 s1 == [srv EXCEPT !.objects = Put(@, ref, approval),
                                   !.state[approvals] = Put(@, approval_id, ref)]
             IN  [HTTPException(s1, 404, "invoice_id not found")
                     EXCEPT !.drawn = 1]
        ELSE LET iref == srv.state.invoices[invoice_id]
                 s1 == [srv EXCEPT !.objects[iref].status =
                            IF decision = "approved" THEN "approved"
                            ELSE "rejected"]
             IN  Stored(s1, req, approvals, approval_id, approval, "ap",
                        "invoices.approve", "ok", 200, uuid + 1, now, 2)

\* ap_invoice_approve (ledgerworks, finops); approvals is the name of the
\* server's collection of approvals
ap_invoice_approve(srv, req, approvals, uuid, now) ==
    LET p == req.payload
        invoice_id == Get(p, "invoice_id", None)
    IN  IF invoice_id \notin DOMAIN srv.state.invoices
        THEN HTTPException(srv, 404, "invoice_id not found")
        ELSE LET approval_id == new_id("appr", uuid)
                 decision == Get(p, "decision", "approved")
                 approval == [approval_id |-> approval_id,
                              invoice_id |-> invoice_id,
                              decision |-> decision, decided_at_ms |-> now]
                 iref == srv.state.invoices[invoice_id]
                 s1 == [srv EXCEPT !.objects[iref].status =
                            IF decision = "approved" THEN "approved"
                            ELSE "rejected"]
             IN  Stored(s1, req, approvals, approval_id, approval, "ap",
                        "invoices.approve", "ok", 200, uuid + 1, now, 2)

\* ap_payment_create (ledgerworks, finops)
ap_payment_create(srv, req, uuid, now) ==
    LET p == req.payload
        payment_id == new_id("pay", uuid)
        payment == [payment_id |-> payment_id,
                    invoice_id |-> Get(p, "invoice_id", None),
                    amount_usd |-> float(Get(p, "amount_usd", PyInt(0))),
                    method |-> Get(p, "method", "ach"),
                    status |-> "queued", queued_at_ms |-> now]
    IN  Stored(srv, req, "payments", payment_id, payment, "ap",
               "payments.create", "accepted", 202, uuid + 1, now, 2)

\* STATE["accounts"].setdefault(account, balance)
OpenAccount(accounts, account, balance) ==
    IF account \in DOMAIN accounts THEN accounts
    ELSE Put(accounts, account, balance)

\* payments_transfer (trustpay)
payments_transfer(srv, req, uuid, now) ==
    LET p == req.payload
        amount == float(Get(p, "amount_usd", PyInt(0)))
        from_acct == Get(p, "from_account", "account_1")
        to_acct == Get(p, "to_account", "account_2")
        a1 == OpenAccount(OpenAccount(srv.state.accounts, from_acct,
                                      float(PyInt(1000000))),
                          to_acct, float(PyInt(0)))
        a2 == Put(a1, from_acct, float_sub(a1[from_acct], amount))
        a3 == Put(a2, to_acct, float_add(a2[to_acct], amount))
        transfer_id == new_id("trf", uuid)
        transfer == [transfer_id |-> transfer_id, from_account |-> from_acct,
                     to_account |-> to_acct, amount_usd |-> amount,
                     status |-> "posted", posted_at_ms |-> now,
                     balances |-> [from |-> a3[from_acct], to |-> a3[to_acct]]]
        s1 == [srv EXCEPT !.state.accounts = a3]
    IN  Stored(s1, req, "transfers", transfer_id, transfer, "payments",
               "transfer", "ok", 200, uuid + 1, now, 2)

\* payouts_create (trustpay)
payouts_create(srv, req, uuid, now) ==
    LET p == req.payload
        payout_id == new_id("pyt", uuid)
        payout == [payout_id |-> payout_id,
                   method |-> Get(p, "method", "ach"),
                   amount_usd |-> float(Get(p, "amount_usd", PyInt(0))),
                   status |-> "queued", queued_at_ms |-> now]
    IN  Stored(srv, req, "payouts", payout_id, payout, "payouts", "create",
               "accepted", 202, uuid + 1, now, 2)

\* the body of the route's handler below its idempotency lookup
process(server, srv, req, uuid, now) ==
    CASE req.path = "/api/v1/audit/append" -> audit_append(srv, req, uuid, now)
      [] req.path = "/api/v1/vendors/create" ->
             vendor_create(srv, req, uuid, now)
      [] req.path = "/api/v1/vendors/bank-change/request" ->
             vendor_bank_change_request(srv, req, uuid, now)
      [] req.path = "/api/v1/ap/invoices/create" ->
             ap_invoice_create(srv, req, uuid, now)
      [] req.path = "/api/v1/ap/invoices/approve" ->
             ap_invoice_approve(srv, req, ApprovalsOf(server), uuid, now)
      [] req.path = "/api/v1/ap/payments/create" ->
             ap_payment_create(srv, req, uuid, now)
      [] req.path = "/api/v1/payments/transfer" ->
             payments_transfer(srv, req, uuid, now)
      [] req.path = "/api/v1/payouts/create" ->
             payouts_create(srv, req, uuid, now)

\* a handler that looks for a cached receipt before it checks the header
handle_lookup_first(server, srv, req, uuid, now) ==
    LET hit == maybe_return_idempotent(srv, req) IN
    IF hit # None
    THEN Response(srv, 200, Body(srv, hit[2]), 0)
    ELSE IF ~Authorized(req.authorization)
    THEN HTTPException(srv, 401, "Missing/invalid Authorization header")
    ELSE process(server, srv, req, uuid, now)

\* every handler: require_auth, then the cached receipt if there is one
\* ("if hit: return hit[1]"), else the route's own work
handle(server, srv, req, uuid, now) ==
    IF ~Authorized(req.authorization)
    THEN HTTPException(srv, 401, "Missing/invalid Authorization header")
    ELSE LET hit == maybe_return_idempotent(srv, req) IN
         IF hit # None
         THEN Response(srv, 200, Body(srv, hit[2]), 0)
         ELSE process(server, srv, req, uuid, now)

\* what the callers of a server have been handed so far: per (method, path,
\* key) the body of the first successful response, and the (method, path,
\* key) that were answered 404
NoServerAudit == [first |-> EmptyDict, failed |-> {}]

AuditResponse(au, req, resp) ==
    IF NoKey(req.idempotency_key) THEN au
    ELSE IF resp.status_code = 200 /\ IdemKey(req) \notin DOMAIN au.first
    THEN [au EXCEPT !.first = Put(@, IdemKey(req), resp.body)]
    ELSE IF resp.status_code = 404
    THEN [au EXCEPT !.failed = @ \cup {IdemKey(req)}]
    ELSE au

InitServer ==
    /\ runner \in Servers /\ hook = "none"
    /\ systems = MockServer(runner)
    /\ uuids = 0
    /\ approvals_by_action = EmptyDict
    /\ nsteps = 0
    /\ last = [kind |-> "init"]
    /\ halted = FALSE
    /\ audit = NoServerAudit
    /\ threads = EmptyDict
    /\ replay = None

\* the server handles one request from start to end
ServerRequest ==
    /\ nsteps < MaxRequests
    /\ \E req \in Requests(runner) :
           LET resp == handle(runner, systems, req, uuids + 1, nsteps + 1) IN
           /\ systems' = resp.srv
           /\ uuids' = uuids + resp.drawn
           /\ last' = [kind |-> "request", request |-> req,
                       status_code |-> resp.status_code, body |-> resp.body]
           /\ audit' = AuditResponse(audit, req, resp)
    /\ nsteps' = nsteps + 1
    /\ UNCHANGED <<runner, hook, approvals_by_action, halted, threads, replay>>

NextServer == ServerRequest

SpecServer == InitServer /\ [][NextServer]_vars

-----------------------------------------------------------------------------
(* Two callers send one request at the same time. uvicorn.run serves the app
   on one event loop, and the handlers are coroutines without a point of
   suspension ("await maybe_return_idempotent" awaits a coroutine that never
   yields), so each request is handled in one piece, in either order. *)

Callers == {"caller_1", "caller_2"}

InitServerConc ==
    /\ runner \in Servers /\ hook = "none"
    /\ systems = MockServer(runner)
    /\ uuids = 0
    /\ approvals_by_action = EmptyDict
    /\ nsteps = 0
    /\ last = [kind |-> "init"]
    /\ halted = FALSE
    /\ audit = [sent |-> None]
    /\ threads = EmptyDict
    /\ replay = None

ConcFrame == UNCHANGED <<runner, hook, approvals_by_action, halted, replay>>

\* a request handled before the two callers send theirs
ConcSetup ==
    /\ threads = EmptyDict
    /\ nsteps < MaxSetup
    /\ \E req \in Requests(runner) :
           LET resp == handle(runner, systems, req, uuids + 1, nsteps + 1) IN
           /\ systems' = resp.srv
           /\ uuids' = uuids + resp.drawn
           /\ last' = [kind |-> "request", request |-> req,
                       status_code |-> resp.status_code, body |-> resp.body]
    /\ nsteps' = nsteps + 1
    /\ UNCHANGED <<audit, threads>>
    /\ ConcFrame

\* both callers send the same request under one Idempotency-Key; the server
\* as it is now is kept beside it
ConcSend ==
    /\ threads = EmptyDict
    /\ \E req \in Requests(runner) :
           /\ ~NoKey(req.idempotency_key)
           /\ Authorized(req.authorization)
           /\ threads' = [c \in Callers |-> [pc |-> "sent", request |-> req]]
           /\ last' = [kind |-> "send", request |-> req]
    /\ audit' = [sent |-> systems]
    /\ UNCHANGED <<systems, uuids, nsteps>>
    /\ ConcFrame

\* the event loop runs the handler of one of the requests in flight
ConcHandle(c) ==
    /\ c \in DOMAIN threads
    /\ threads[c].pc = "sent"
    /\ LET resp == handle(runner, systems, threads[c].request, uuids + 1,
                          nsteps + 1) IN
       /\ systems' = resp.srv
       /\ uuids' = uuids + resp.drawn
       /\ threads' = [threads EXCEPT ![c] =
               [pc |-> "handled", request |-> @.request,
                status_code |-> resp.status_code, body |-> resp.body]]
       /\ last' = [kind |-> "handle", caller |-> c]
    /\ nsteps' = nsteps + 1
    /\ UNCHANGED audit
    /\ ConcFrame

\* the caller receives the response to its request
ConcReceive(c) ==
    /\ c \in DOMAIN threads
    /\ threads[c].pc = "handled"
    /\ threads' = [threads EXCEPT ![c].pc = "received"]
    /\ last' = [kind |-> "receive", caller |-> c]
    /\ UNCHANGED <<systems, uuids, nsteps, audit>>
    /\ ConcFrame

NextServerConc ==
    \/ ConcSetup
    \/ ConcSend
    \/ \E c \in Callers : ConcHandle(c)
    \/ \E c \in Callers : ConcReceive(c)

SpecServerConc == InitServerConc /\ [][NextServerConc]_vars

-----------------------------------------------------------------------------
(* The sender agents (fintech_trust_agent_3000.py, finops_agent_many.py) *)

\* fintech_trust_agent_3000: CONCURRENCY above 1 selects the concurrent mode
CONCURRENCY == 2

\* batch_size = CONCURRENCY * 5
batch_size == CONCURRENCY * 5

\* scenarios[start : start + batch_size], by Scenario.i (which counts from 1)
Batch(start) ==
    { i \in 1..MaxScenarios : start < i /\ i <= start + batch_size }

\* a semaphore that never makes a task wait
Semaphore_locked_never(value) == FALSE

\* asyncio.Semaphore.locked
Semaphore_locked(value) == value = 0

\* how often each scenario was sent and which requests were answered
NoSends == [sent |-> [i \in 1..MaxScenarios |-> 0], completed |-> {}]

InitAgentConc ==
    /\ runner = "trust_agent" /\ hook = "none"
    /\ systems = EmptyDict
    /\ uuids = 0
    /\ approvals_by_action = EmptyDict
    /\ nsteps = 0
    /\ last = [kind |-> "init"]
    /\ halted = FALSE
    /\ audit = NoSends
    /\ threads = EmptyDict
    /\ replay = [start |-> 0, success |-> 0, sem |-> CONCURRENCY,
                 pc |-> "for"]

AgentFrame == UNCHANGED <<runner, hook, systems, approvals_by_action, halted>>

\* "for start in range(0, len(scenarios), batch_size)": the next batch, its
\* tasks created by gather, each in front of "async with sem"
BatchStart ==
    /\ replay.pc = "for"
    /\ replay.start < MaxScenarios
    /\ threads' = [i \in Batch(replay.start) |-> [pc |-> "acquire"]]
    /\ replay' = [replay EXCEPT !.pc = "gather"]
    /\ last' = [kind |-> "batch", start |-> replay.start]
    /\ nsteps' = nsteps + 1
    /\ UNCHANGED <<uuids, audit>>
    /\ AgentFrame

\* bounded_send: a task enters "async with sem" and send_one sends its
\* request with a fresh Idempotency-Key; the tasks reach the semaphore in
\* the order gather created them
TaskAcquire(i) ==
    /\ replay.pc = "gather"
    /\ i \in DOMAIN threads
    /\ threads[i].pc = "acquire"
    /\ \A j \in DOMAIN threads : j < i => threads[j].pc # "acquire"
    /\ ~Semaphore_locked(replay.sem)
    /\ replay' = [replay EXCEPT !.sem = @ - 1]
    /\ threads' = [threads EXCEPT ![i] = [pc |-> "request"]]
    /\ audit' = [audit EXCEPT !.sent[i] = @ + 1]
    /\ uuids' = uuids + 1
    /\ last' = [kind |-> "send", i |-> i]
    /\ nsteps' = nsteps + 1
    /\ AgentFrame

\* send_one returns (a response, or the exception of a timeout turned into
\* ok = False) and the task leaves "async with sem"
TaskComplete(i) ==
    /\ replay.pc = "gather"
    /\ i \in DOMAIN threads
    /\ threads[i].pc = "request"
    /\ \E ok \in BOOLEAN :
           threads' = [threads EXCEPT ![i] = [pc |-> "done", ok |-> ok]]
    /\ replay' = [replay EXCEPT !.sem = @ + 1]
    /\ audit' = [audit EXCEPT !.completed = @ \cup {i}]
    /\ last' = [kind |-> "response", i |-> i]
    /\ nsteps' = nsteps + 1
    /\ UNCHANGED uuids
    /\ AgentFrame

\* gather returns once every task is done; "for s, ok, status, data in
\* results: if ok: success += 1"
BatchTally ==
    /\ replay.pc = "gather"
    /\ \A i \in DOMAIN threads : threads[i].pc = "done"
    /\ replay' = [replay EXCEPT
           !.success = @ + Cardinality({ i \in DOMAIN threads : threads[i].ok }),
           !.start = @ + batch_size,
           !.pc = "for"]
    /\ threads' = EmptyDict
    /\ last' = [kind |-> "tally"]
    /\ nsteps' = nsteps + 1
    /\ UNCHANGED <<uuids, audit>>
    /\ AgentFrame

\* print("Done.")
AgentDone ==
    /\ replay.pc = "for"
    /\ replay.start >= MaxScenarios
    /\ replay' = [replay EXCEPT !.pc = "done"]
    /\ last' = [kind |-> "done"]
    /\ nsteps' = nsteps + 1
    /\ UNCHANGED <<uuids, audit, threads>>
    /\ AgentFrame

NextAgentConc ==
    \/ BatchStart
    \/ \E i \in 1..MaxScenarios : TaskAcquire(i)
    \/ \E i \in 1..MaxScenarios : TaskComplete(i)
    \/ BatchTally
    \/ AgentDone

\* the event loop keeps running, and every request is answered or times out
\* (httpx.AsyncClient(timeout=TIMEOUT_S))
SpecAgentConc ==
    InitAgentConc /\ [][NextAgentConc]_vars /\ WF_vars(NextAgentConc)

\* The sequential mode: "for sc in scenarios", one request at a time.

Agents == {"trust_agent", "finops_agent"}

\* replay_every = 37 (fintech_trust_agent_3000), 41 (finops_agent_many)
replay_every(agent) == IF agent = "trust_agent" THEN 37 ELSE 41

\* _rid(prefix) / _id(prefix), uuid the fresh value drawn
rid(prefix, uuid) == <<prefix, uuid>>

\* make_headers: a request id, and the given Idempotency-Key or a fresh one;
\* the key sent and the ids drawn
make_headers(idem, uuid) ==
    IF idem # None THEN [key |-> idem, drawn |-> 1]
    ELSE [key |-> rid("idem", uuid + 1), drawn |-> 2]

\* an iteration that counts the replay's answer too
iteration_count_replay(agent, i, success, uuid, ok1, ok2) ==
    IF i % replay_every(agent) = 0
    THEN LET idem == rid("idem_replay", uuid)
             h1 == make_headers(idem, uuid + 1)
             h2 == make_headers(idem, uuid + 1 + h1.drawn)
         IN  [keys |-> <<h1.key, h2.key>>, oks |-> <<ok1, ok2>>,
              success |-> success + (IF ok1 THEN 1 ELSE 0)
                                  + (IF ok2 THEN 1 ELSE 0),
              drawn |-> 1 + h1.drawn + h2.drawn]
    ELSE LET h == make_headers(None, uuid) IN
         [keys |-> <<h.key>>, oks |-> <<ok1>>,
          success |-> success + (IF ok1 THEN 1 ELSE 0),
          drawn |-> h.drawn]

\* one iteration of "for sc in scenarios" for the scenario with sc.i = i;
\* ok1 and ok2 are what send_one returns for the request and its replay
iteration(agent, i, success, uuid, ok1, ok2) ==
    IF i % replay_every(agent) = 0
    THEN LET idem == rid("idem_replay", uuid)
             h1 == make_headers(idem, uuid + 1)
             h2 == make_headers(idem, uuid + 1 + h1.drawn)
         IN  [keys |-> <<h1.key, h2.key>>, oks |-> <<ok1, ok2>>,
              success |-> success + (IF ok1 THEN 1 ELSE 0),
              drawn |-> 1 + h1.drawn + h2.drawn]
    ELSE LET h == make_headers(None, uuid) IN
         [keys |-> <<h.key>>, oks |-> <<ok1>>,
          success |-> success + (IF ok1 THEN 1 ELSE 0),
          drawn |-> h.drawn]

InitAgentSeq ==
    /\ runner \in Agents /\ hook = "none"
    /\ systems = EmptyDict
    /\ uuids = 0
    /\ approvals_by_action = EmptyDict
    /\ nsteps = 0
    /\ last = [kind |-> "init"]
    /\ halted = FALSE
    /\ audit = [keys |-> [i \in 1..MaxSeqScenarios |-> <<>>]]
    /\ threads = EmptyDict
    /\ replay = [success |-> 0]

\* the loop body for the next scenario
AgentIteration ==
    /\ nsteps < MaxSeqScenarios
    /\ \E ok1, ok2 \in BOOLEAN :
           LET i == nsteps + 1
               it == iteration(runner, i, replay.success, uuids + 1, ok1, ok2)
           IN  /\ i % replay_every(runner) # 0 => ok2 = ok1
               /\ replay' = [success |-> it.success]
               /\ uuids' = uuids + it.drawn
               /\ audit' = [audit EXCEPT !.keys[i] = it.keys]
               /\ last' = [kind |-> "scenario", i |-> i, oks |-> it.oks]
    /\ nsteps' = nsteps + 1
    /\ UNCHANGED threads
    /\ AgentFrame

NextAgentSeq == AgentIteration

SpecAgentSeq == InitAgentSeq /\ [][NextAgentSeq]_vars

-----------------------------------------------------------------------------
(* Properties *)

\* the transition is one loop iteration of a runner in `kinds`
StepOf(kinds) == nsteps' = nsteps + 1 /\ last'.kind \in kinds

Governed == {"nuvalla", "fintech"}

\* C1: for every action_id a that execute was called for N >= 1 times on the
\* instance, exactly one record was created for a, every call returned the
\* same external_id (that record's), and only the first call returned
\* idempotent_replay = false.
C1_ExecuteIdempotent ==
    \A a \in DOMAIN audit.replays :
        LET r == audit.replays[a] IN
        /\ Cardinality(audit.created[a]) = 1
        /\ Cardinality(audit.returned[a]) = 1
        /\ \A k \in audit.created[a] : k[2] \in audit.returned[a]
        /\ ~r[1]
        /\ \A i \in 2..Len(r) : r[i]

C1_Witness ==
    \E a \in DOMAIN audit.replays :
        /\ Len(audit.replays[a]) >= 3
        /\ last.kind = "direct"
        /\ last.call.action_id = a
        /\ \A k \in audit.created[a] : k[1] # last.call.system

\* C3: a governed iteration whose evaluation returned BLOCK or
\* REQUIRE_APPROVAL (PENDING_APPROVAL in FINTECH_ONLY) leaves the systems
\* state and the action_id -> external_id map as they were, and hands nothing
\* to execute.
C3_NoSideEffectWithoutCommit ==
    [][ ( /\ StepOf(Governed)
          /\ ~last'.raised
          /\ last'.evalr0.decision \in
                 {"BLOCK", "REQUIRE_APPROVAL", "PENDING_APPROVAL"} )
        => ( /\ systems' = systems
             /\ audit'.replays = audit.replays
             /\ last'.exec_result = None ) ]_vars

C3_Witness ==
    /\ last.kind = "nuvalla"
    /\ ~last.raised
    /\ last.evalr0.decision = "REQUIRE_APPROVAL"
    /\ hook = "builtin"
    /\ Records(systems) # {}

C5_FailClosedOnPolicyError ==
    [][ ( StepOf(Governed) /\ last'.raised )
        => ( /\ systems' = systems
             /\ audit' = audit
             /\ last'.ops = <<"evaluate">>
             /\ last'.exec_result = None
             /\ last'.undo_res = None
             /\ halted' ) ]_vars

C5_Witness ==
    /\ last.kind = "nuvalla"
    /\ last.raised
    /\ hook = "builtin"
    /\ last.call.action_id \notin DOMAIN IdemOf(systems)

\* C2: among concurrent execute_direct calls for one action_id exactly one
\* creates a record, and every caller is handed that record's external_id,
\* the winner alone with idempotent_replay = false.
C2_SingleWinner ==
    \A a \in DOMAIN audit.replays :
        LET r == audit.replays[a] IN
        /\ Cardinality(audit.created[a]) <= 1
        /\ Cardinality(audit.returned[a]) = 1
        /\ Cardinality({ i \in 1..Len(r) : ~r[i] }) <= 1

\* the record that the action_id of the last call maps to
RecordsOfLastCall ==
    { k \in Records(systems) :
          /\ last.call.action_id \in DOMAIN IdemOf(systems)
          /\ k[2] = IdemOf(systems)[last.call.action_id] }

\* C6: after run_trace_with_nuvalla processed a committed call that carries
\* force_post_commit_failure, the record of the call's action_id is deleted
\* and the reported decision is UNDO with commit_allowed = false and the
\* commit receipt extended with post_commit_failure and the undo result.
C6_CompensationMarksDeleted ==
    ( /\ last.kind = "nuvalla"
      /\ ~last.raised
      /\ last.evalr0.decision = "COMMIT" /\ last.evalr0.commit_allowed
      /\ PostCommitFailure(last.call) )
    => ( /\ RecordsOfLastCall # {}
         /\ \A k \in RecordsOfLastCall : RecordAt(systems, k).deleted
         /\ last.evalr.decision = "UNDO"
         /\ ~last.evalr.commit_allowed
         /\ last.evalr.receipt =
                Merge(last.evalr0.receipt,
                      [post_commit_failure |-> TRUE, undo |-> last.undo_res]) )

\* the last iteration committed a call that carries the compensation trigger
CompensationTriggered ==
    /\ last.kind \in Governed
    /\ ~last.raised
    /\ last.exec_result # None
    /\ PostCommitFailure(last.call)

C8_UndoIdempotent ==
    /\ [](\A ext \in DOMAIN audit.undo_ids :
              \A i \in 1..Len(audit.undo_ids[ext]) :
                  audit.undo_ids[ext][i] = <<"undo", ext>>)
    /\ [][ last'.kind # "newtrace" =>
             \A k \in Records(systems) :
                 /\ k \in Records(systems')
                 /\ RecordAt(systems', k) \in
                        { RecordAt(systems, k),
                          [RecordAt(systems, k) EXCEPT !.deleted = TRUE] }
                 /\ RecordAt(systems, k).deleted =>
                        RecordAt(systems', k) = RecordAt(systems, k) ]_vars

C8_Witness ==
    \E ext \in DOMAIN audit.undo_ids : Len(audit.undo_ids[ext]) >= 2

\* the record undo is asked for is in the state of the call's system
UndoTargetThere(ms, step) ==
    /\ step.call.system \in DOMAIN ms.state
    /\ step.exec_result.external_id \in DOMAIN ms.state[step.call.system]

\* C9: undo for an external_id with no record in the call's system returns
\* ok = false (record_not_found) and changes no record and no map entry; and
\* a governed iteration reaches undo only after an allowed COMMIT, never for
\* a call that was blocked or is pending approval.
C9_UndoNotFoundAndGated ==
    [][ ( StepOf(Governed) /\ ~last'.raised ) =>
          /\ last'.undo_res # None =>
                /\ last'.evalr0.decision = "COMMIT"
                /\ last'.kind = "nuvalla" => last'.evalr0.commit_allowed
                /\ last'.kind = "fintech" => last'.evalr0.status = "success"
                /\ last'.undo_res.ok = UndoTargetThere(systems', last')
                /\ ~UndoTargetThere(systems', last') =>
                      /\ last'.undo_res =
                             [ok |-> FALSE, error |-> "record_not_found"]
                      /\ systems' = systems
          /\ last'.evalr0.decision \in
                 {"BLOCK", "REQUIRE_APPROVAL", "PENDING_APPROVAL"} =>
                /\ last'.undo_res = None
                /\ last'.ops = <<"evaluate">> ]_vars

C9_Witness ==
    /\ last.kind = "nuvalla"
    /\ ~last.raised
    /\ last.undo_res # None
    /\ ~last.undo_res.ok

\* a deleted record is never removed or re-activated
NoReactivation ==
    last'.kind # "newtrace" =>
        \A k \in Records(systems) :
            RecordAt(systems, k).deleted =>
                k \in Records(systems') /\ RecordAt(systems', k).deleted

Content(rec) ==
    [operation |-> rec.operation, params |-> rec.params,
     created_at_ms |-> rec.created_at_ms]

\* the transition called undo, and undo found its record
UndoSucceeded ==
    /\ StepOf(Governed)
    /\ ~last'.raised
    /\ last'.undo_res # None
    /\ last'.undo_res.ok

\* C11: on one MockSystems instance a record that exists keeps existing with
\* the same operation, params and creation time; its deleted flag never goes
\* from true to false, and goes from false to true only in an iteration whose
\* undo succeeded for that very record.
C11_RecordsKeptAndChangedOnlyByUndo ==
    [][ last'.kind # "newtrace" =>
          \A k \in Records(systems) :
              /\ k \in Records(systems')
              /\ Content(RecordAt(systems', k)) = Content(RecordAt(systems, k))
              /\ RecordAt(systems, k).deleted => RecordAt(systems', k).deleted
              /\ RecordAt(systems', k).deleted # RecordAt(systems, k).deleted =>
                    /\ UndoSucceeded
                    /\ k = <<last'.call.system,
                             last'.exec_result.external_id>> ]_vars

C11_Witness ==
    /\ last.kind = "fintech"
    /\ last.undo_res # None
    /\ last.undo_res.ok
    /\ last.exec_result.idempotent_replay
    /\ Cardinality(Records(systems)) >= 2

\* C12: an execute call whose action_id is already in the map returns the
\* mapped external_id with idempotent_replay = true, draws no id, and leaves
\* the map and every stored record as they were, whatever the system,
\* operation and params of the replayed call; only an undo that follows in a
\* governed iteration may then flag a record.
C12_ReplayChangesNothing ==
    [][ ( /\ StepOf({"direct", "nuvalla", "fintech"})
          /\ last'.exec_result # None
          /\ last'.call.action_id \in DOMAIN IdemOf(systems) )
        => ( /\ last'.exec_result =
                    [ok |-> TRUE,
                     external_id |-> IdemOf(systems)[last'.call.action_id],
                     idempotent_replay |-> TRUE]
             /\ uuids' = uuids
             /\ IdemOf(systems') = IdemOf(systems)
             /\ Records(systems') = Records(systems)
             /\ \A k \in Records(systems) :
                    Content(RecordAt(systems', k)) = Content(RecordAt(systems, k))
             /\ last'.undo_res = None => systems' = systems ) ]_vars

C12_Witness ==
    /\ last.kind = "direct"
    /\ last.exec_result.idempotent_replay
    /\ \E k \in RecordsOfLastCall :
           /\ k[1] # last.call.system
           /\ RecordAt(systems, k).operation # last.call.operation
           /\ RecordAt(systems, k).params # last.call.params

\* C13: for every action_id the list approve keeps is exactly the approvals
\* handed to approve for it, duplicates included, in the order of the calls;
\* an action_id that got none reads as the empty list.
C13_ApproveAppendsWithoutDedup ==
    \A id \in ActionIds :
        approvals_for(approvals_by_action, id) = Submitted(audit, id)

C13_Witness ==
    /\ runner = "nuvalla"
    /\ \E id \in ActionIds :
           LET held == approvals_for(approvals_by_action, id) IN
           /\ Len(held) = 3
           /\ held[1] = held[3]
           /\ held[1] # held[2]
    /\ \E id \in ActionIds : approvals_for(approvals_by_action, id) = <<>>

\* the list `old` is a prefix of the list `new`
IsPrefix(old, new) ==
    /\ Len(old) <= Len(new)
    /\ \A i \in 1..Len(old) : new[i] = old[i]

\* C14: whatever the replay does next (approve, or an iteration that
\* evaluates, executes and undoes), every action_id keeps its list, and the
\* list it had is a prefix of the list it has afterwards.
C14_ApprovalsOnlyExtended ==
    [][ \A id \in DOMAIN approvals_by_action :
            /\ id \in DOMAIN approvals_by_action'
            /\ IsPrefix(approvals_by_action[id], approvals_by_action'[id]) ]_vars

C14_Witness ==
    /\ last.kind = "nuvalla"
    /\ last.undo_res # None
    /\ \E id \in ActionIds :
           LET held == approvals_for(approvals_by_action, id) IN
           /\ Len(held) = 2
           /\ held[1] # held[2]

\* the decisions the built-in policy has returned for `call`, in call order
DecisionsFor(call) == Get(audit.decisions, call, <<>>)

\* C15: under the built-in policy, once evaluate has returned COMMIT or BLOCK
\* for a call, no later evaluation of the same call returns REQUIRE_APPROVAL,
\* however many approvals were recorded in between.
C15_ApprovalsNeverReopen ==
    \A call \in DOMAIN audit.decisions :
        \A i, j \in 1..Len(DecisionsFor(call)) :
            ( /\ i < j
              /\ DecisionsFor(call)[i].decision \in {"COMMIT", "BLOCK"} )
            => DecisionsFor(call)[j].decision # "REQUIRE_APPROVAL"

C15_Witness ==
    \E call \in DOMAIN audit.decisions :
        LET d == DecisionsFor(call) IN
        /\ Len(d) = 2
        /\ d[1].decision = "COMMIT"
        /\ d[1].approvals = 1
        /\ d[2].approvals = 2
        /\ d[2].decision = "COMMIT"

\* the payments the built-in policy holds for approval
OverThreshold(call) ==
    /\ call.system = "stripe"
    /\ call.operation = "payment.execute"
    /\ ~IntOf(Get(call.params, "amount_usd", PyInt(0))).raised
    /\ IntOf(Get(call.params, "amount_usd", PyInt(0))).v > PaymentThreshold

\* C16: under the built-in policy a submission of a payment over the threshold
\* (a) returns REQUIRE_APPROVAL and leaves the records alone while its
\* action_id has no approval; (b) returns COMMIT once an approval is recorded,
\* and then creates exactly one record with idempotent_replay = false if the
\* action_id had none; (c) returns the action_id's external_id with
\* idempotent_replay = true and creates nothing if it had one.
C16_ApprovalGatedLifecycle ==
    [][ ( /\ StepOf({"nuvalla"})
          /\ hook = "builtin"
          /\ OverThreshold(last'.call) )
        => LET id == last'.call.action_id IN
           IF Submitted(audit, id) = <<>>
           THEN /\ last'.evalr.decision = "REQUIRE_APPROVAL"
                /\ last'.exec_result = None
                /\ systems' = systems
           ELSE /\ last'.evalr0.decision = "COMMIT"
                /\ last'.exec_result # None
                /\ IF id \in DOMAIN IdemOf(systems)
                   THEN /\ last'.exec_result.idempotent_replay
                        /\ last'.exec_result.external_id = IdemOf(systems)[id]
                        /\ Records(systems') = Records(systems)
                   ELSE /\ ~last'.exec_result.idempotent_replay
                        /\ Cardinality(Records(systems') \ Records(systems)) = 1
                        /\ IdemOf(systems')[id] = last'.exec_result.external_id
      ]_vars

C16_Witness ==
    /\ last.kind = "nuvalla"
    /\ OverThreshold(last.call)
    /\ LET d == DecisionsFor(last.call) IN
       /\ Len(d) = 3
       /\ d[1].decision = "REQUIRE_APPROVAL" /\ d[1].approvals = 0
       /\ d[2].decision = "COMMIT" /\ d[2].approvals = 1
       /\ d[3].decision = "COMMIT" /\ d[3].approvals = 1
    /\ audit.replays[last.call.action_id] = <<FALSE, TRUE>>
    /\ Cardinality(audit.returned[last.call.action_id]) = 1
    /\ Cardinality(Records(systems)) = 1

\* C17: under the built-in policy a call that was answered REQUIRE_APPROVAL
\* is answered REQUIRE_APPROVAL again on every resubmission made while its
\* action_id still has no approval, and such a resubmission executes nothing
\* and leaves the records as they were.
C17_PendingNeverTimesOut ==
    [][ ( /\ StepOf({"nuvalla"})
          /\ hook = "builtin"
          /\ \E i \in 1..Len(DecisionsFor(last'.call)) :
                 DecisionsFor(last'.call)[i].decision = "REQUIRE_APPROVAL"
          /\ Submitted(audit, last'.call.action_id) = <<>> )
        => ( /\ ~last'.raised
             /\ last'.evalr.decision = "REQUIRE_APPROVAL"
             /\ last'.exec_result = None
             /\ systems' = systems ) ]_vars

C17_Witness ==
    /\ last.kind = "nuvalla"
    /\ approvals_by_action = EmptyDict
    /\ systems = MockSystems
    /\ LET d == DecisionsFor(last.call) IN
       /\ Len(d) = MaxSteps
       /\ \A i \in 1..Len(d) : d[i].decision = "REQUIRE_APPROVAL"

\* the timeline entries of the replayed trace, by position
Timeline == 1..Len(replay.approvals_timeline)

\* how often the entry at position i was passed to submit_approval
TimesDelivered(i) ==
    Cardinality({ p \in 1..Len(replay.delivered) : replay.delivered[p] = i })

\* C18: when the k-th tool call is intercepted every timeline entry scheduled
\* at a step index <= k - 1 has been passed to submit_approval, and when the
\* replay of the trace is over every timeline entry has been passed to
\* submit_approval exactly once, whatever its step index.
C18_EveryApprovalDelivered ==
    /\ [][ StepOf({"fintech"}) =>
             \A i \in Timeline :
                 deliver_after(replay.approvals_timeline[i]) <= replay'.idx - 1
                     => TimesDelivered(i)' >= 1 ]_vars
    /\ [](replay.done => \A i \in Timeline : TimesDelivered(i) = 1)

\* C19: submit_approval gets the timeline entries by ascending step index,
\* and those of one step index in approvals_timeline order.
C19_DeliveryOrder ==
    \A p, q \in 1..Len(replay.delivered) :
        p < q =>
            LET i == replay.delivered[p]
                j == replay.delivered[q]
                si == deliver_after(replay.approvals_timeline[i])
                sj == deliver_after(replay.approvals_timeline[j])
            IN  si < sj \/ (si = sj /\ i < j)

C19_Witness ==
    /\ replay.done
    /\ replay.delivered = <<2, 3, 1>>
    /\ deliver_after(replay.approvals_timeline[1]) = 1
    /\ replay.approvals_timeline[2] # replay.approvals_timeline[3]

\* the threads that have returned from approve for action_id
Approved(id) ==
    { t \in DOMAIN threads :
          threads[t].pc = "done" /\ threads[t].approval.action_id = id }

\* C20: with approve called from several threads at once, the list of an
\* action_id holds one entry per call that has returned for it and each such
\* call's approval is in it, the list is in the order in which the appends
\* took effect, and a step of a call for one action_id leaves the list of
\* every other action_id as it was.
C20_ConcurrentApprove ==
    /\ [](\A id \in ActionIds :
            LET held == approvals_for(approvals_by_action, id) IN
            /\ Len(held) = Cardinality(Approved(id))
            /\ \A t \in Approved(id) :
                   \E i \in 1..Len(held) : held[i] = threads[t].approval
            /\ held = Submitted(audit, id))
    /\ [][ \A t \in DOMAIN threads' :
             threads' # threads /\ (t \notin DOMAIN threads \/ threads'[t] # threads[t])
             => \A id \in ActionIds \ {threads'[t].approval.action_id} :
                    approvals_for(approvals_by_action', id) =
                        approvals_for(approvals_by_action, id) ]_vars

C20_Witness ==
    \E t, u \in DOMAIN threads :
        /\ t # u
        /\ threads[t].pc = "done" /\ threads[u].pc = "done"
        /\ threads[t].approval.action_id = threads[u].approval.action_id
        /\ threads[t].approval # threads[u].approval
        /\ threads[t].seen = 0 /\ threads[u].seen = 0
        /\ Len(approvals_for(approvals_by_action,
                             threads[t].approval.action_id)) = 2
        /\ \E v \in DOMAIN threads :
               threads[v].approval.action_id # threads[t].approval.action_id

\* what the gateway reads of an evaluation
Verdict(d) ==
    [decision |-> d.decision, commit_allowed |-> d.commit_allowed,
     required_approvals |-> d.required_approvals]

\* C21: under the built-in policy an iteration leaves the approvals store as
\* it was, and leaves the systems state as it was unless it went on to
\* execute; and any two evaluations of one call made with the same approvals
\* recorded for its action_id returned the same decision, commit_allowed and
\* required_approvals.
C21_EvaluatePure ==
    /\ [][ (StepOf({"nuvalla"}) /\ hook = "builtin") =>
             /\ approvals_by_action' = approvals_by_action
             /\ last'.exec_result = None => systems' = systems ]_vars
    /\ [](\A call \in DOMAIN audit.decisions :
            \A i, j \in 1..Len(DecisionsFor(call)) :
                DecisionsFor(call)[i].held = DecisionsFor(call)[j].held
                => Verdict(DecisionsFor(call)[i]) = Verdict(DecisionsFor(call)[j]))

C21_Witness ==
    \E call \in DOMAIN audit.decisions :
        LET d == DecisionsFor(call) IN
        /\ Len(d) = 2
        /\ d[1].held = <<>> /\ d[2].held = <<>>
        /\ d[1].decision = "REQUIRE_APPROVAL"
        /\ audit.approved # <<>>
        /\ Cardinality(DOMAIN audit.decisions) >= 2

\* how often the iteration called `op`
Calls_of(ops, op) == Cardinality({ i \in 1..Len(ops) : ops[i] = op })

\* the execute and undo calls made so far for action_id / external_id
ExecutesFor(au, id) == Len(Get(au.replays, id, <<>>))
UndosDone(au) ==
    LET ids == DOMAIN au.undo_ids IN
    IF ids = {} THEN 0
    ELSE LET RECURSIVE total(_)
             total(S) == IF S = {} THEN 0
                         ELSE LET e == CHOOSE x \in S : TRUE
                              IN  Len(au.undo_ids[e]) + total(S \ {e})
         IN  total(ids)

\* C22: an iteration of a governed loop calls the policy evaluation exactly
\* once, execute at most once and undo at most once, and the counts of
\* results handed out by execute and undo grow by no more than that.
C22_NoRetries ==
    [][ StepOf(Governed) =>
          /\ Calls_of(last'.ops, "evaluate") = 1
          /\ Calls_of(last'.ops, "execute") <= 1
          /\ Calls_of(last'.ops, "undo") <= 1
          /\ Len(last'.ops) = 1 + Calls_of(last'.ops, "execute")
                                + Calls_of(last'.ops, "undo")
          /\ \A id \in ActionIds :
                 ExecutesFor(audit', id) - ExecutesFor(audit, id) =
                     (IF id = last'.call.action_id
                      THEN Calls_of(last'.ops, "execute") ELSE 0)
          /\ UndosDone(audit') - UndosDone(audit) <= Calls_of(last'.ops, "undo")
      ]_vars

C22_Witness ==
    /\ last.kind \in Governed
    /\ last.ops = <<"evaluate", "execute", "undo">>
    /\ last.exec_result.idempotent_replay
    /\ ExecutesFor(audit, last.call.action_id) = 2
    /\ UndosDone(audit) = 2

\* C30: the calls of an iteration are a prefix of evaluate, execute, undo; an
\* iteration that called undo had called execute for the same call and undoes
\* the external_id execute returned, and one that called execute had got a
\* decision back from its evaluation.
C30_EvaluateExecuteUndoOrder ==
    last.kind \in Governed =>
        /\ last.ops \in { <<"evaluate">>, <<"evaluate", "execute">>,
                          <<"evaluate", "execute", "undo">> }
        /\ (last.undo_res # None) = (Calls_of(last.ops, "undo") = 1)
        /\ (last.exec_result # None) = (Calls_of(last.ops, "execute") = 1)
        /\ last.undo_res # None => last.exec_result # None
        /\ (last.undo_res # None /\ last.undo_res.ok) =>
               last.undo_res.undo_id = <<"undo", last.exec_result.external_id>>
        /\ last.exec_result # None => (~last.raised /\ last.evalr0 # None)

C30_Witness ==
    /\ last.kind = "nuvalla"
    /\ last.ops = <<"evaluate", "execute", "undo">>
    /\ last.undo_res.ok
    /\ ~last.exec_result.idempotent_replay

\* the (system, operation) pairs the built-in policy has a rule for
RuledOperations ==
    { <<"stripe", "payment.execute">>, <<"netsuite", "vendor.create">>,
      <<"m365", "email.send">>, <<"ehr", "medication.order">> }

\* C23: under the built-in policy an iteration for a call whose (system,
\* operation) has no rule does not execute the call and creates no record.
C23_NoRuleNoExecution ==
    [][ ( /\ StepOf({"nuvalla"})
          /\ hook = "builtin"
          /\ <<last'.call.system, last'.call.operation>> \notin RuledOperations )
        => ( /\ last'.exec_result = None
             /\ last'.evalr.decision # "COMMIT"
             /\ Records(systems') = Records(systems) ) ]_vars

\* the action_ids whose map entry is the external_id of record k
OwnersOf(ms, k) ==
    { id \in DOMAIN IdemOf(ms) : IdemOf(ms)[id] = k[2] }

\* the stored stripe payments over the threshold
LargePayments(ms) ==
    { k \in Records(ms) :
          /\ k[1] = "stripe"
          /\ RecordAt(ms, k).operation = "payment.execute"
          /\ "amount_usd" \in DOMAIN RecordAt(ms, k).params
          /\ ~IntOf(RecordAt(ms, k).params.amount_usd).raised
          /\ IntOf(RecordAt(ms, k).params.amount_usd).v > PaymentThreshold }

\* C24: under the built-in policy every stored stripe payment over the
\* threshold belongs to an action_id for which an approval with role CFO has
\* been recorded.
C24_LargePaymentHasCfoApproval ==
    hook = "builtin" =>
        \A k \in LargePayments(systems) : \A id \in OwnersOf(systems, k) :
            \E i \in 1..Len(approvals_for(approvals_by_action, id)) :
                approvals_for(approvals_by_action, id)[i].role = "CFO"

\* C28: when run_trace_with_nuvalla reports UNDO for a call it executed, the
\* record stored under the external_id that execute returned is deleted, also
\* when the call replayed an action_id first executed under another system.
C28_UndoReportMeansDeleted ==
    ( /\ last.kind = "nuvalla"
      /\ ~last.raised
      /\ last.evalr.decision = "UNDO"
      /\ last.exec_result # None )
    => \A k \in Records(systems) :
           k[2] = last.exec_result.external_id => RecordAt(systems, k).deleted

\* C29: on an instance used by one caller at a time, every action_id that was
\* executed is in the map; a map entry names exactly one record, the one its
\* first execute created, stored under that call's system; every record is
\* named by exactly one action_id; and no two action_ids name one external_id.
C29_LedgerConsistent ==
    /\ \A id \in DOMAIN audit.replays : id \in DOMAIN IdemOf(systems)
    /\ \A id \in DOMAIN IdemOf(systems) :
           /\ Cardinality({ k \in Records(systems) :
                                k[2] = IdemOf(systems)[id] }) = 1
           /\ { k \in Records(systems) : k[2] = IdemOf(systems)[id] } =
                  Get(audit.created, id, {})
           /\ Get(audit.returned, id, {}) = { IdemOf(systems)[id] }
    /\ \A k \in Records(systems) : Cardinality(OwnersOf(systems, k)) = 1
    /\ \A id1, id2 \in DOMAIN IdemOf(systems) :
           IdemOf(systems)[id1] = IdemOf(systems)[id2] => id1 = id2

C29_Witness ==
    /\ Cardinality(DOMAIN IdemOf(systems)) = 2
    /\ Cardinality(Records(systems)) = 2
    /\ \E id \in DOMAIN audit.replays : Len(audit.replays[id]) >= 2
    /\ \E k \in Records(systems) : RecordAt(systems, k).deleted

\* the tool calls of the trace of build_traces with this name
CallsOfTrace(name) ==
    LET n == CHOOSE i \in 1..Len(build_traces) : build_traces[i].name = name
    IN  { build_traces[n].tool_calls[i] :
              i \in 1..Len(build_traces[n].tool_calls) }

\* C25: in the governed replay of the trace "Large payment requires
\* approval" the first answer to its payment is REQUIRE_APPROVAL, and the
\* payment's action_id has no record while no COMMIT answer has been given.
C25_LargePaymentGatedFirst ==
    \A call \in CallsOfTrace("Fintech: Large payment requires approval") :
        /\ DecisionsFor(call) # <<>> =>
               DecisionsFor(call)[1].decision = "REQUIRE_APPROVAL"
        /\ (\A i \in 1..Len(DecisionsFor(call)) :
                DecisionsFor(call)[i].decision # "COMMIT")
           => call.action_id \notin DOMAIN IdemOf(systems)

\* C26: in the governed replay of the trace "Fraud-ish vendor invoice +
\* external audit email" none of the three calls gets a record.
C26_FraudFlowCreatesNoRecord ==
    \A call \in CallsOfTrace(
            "Fintech: Fraud-ish vendor invoice + external audit email") :
        /\ call.action_id \notin DOMAIN IdemOf(systems)
        /\ call.action_id \notin DOMAIN audit.replays

\* the request of the transition carries a key under which this caller, or
\* an earlier one, got a successful response for the same method and path
Repeated ==
    /\ last'.kind = "request"
    /\ Authorized(last'.request.authorization)
    /\ ~NoKey(last'.request.idempotency_key)
    /\ IdemKey(last'.request) \in DOMAIN audit.first

\* C27: in each server a request sent again with the method, path and
\* Idempotency-Key of an earlier successful request gets the body that the
\* first request got, and leaves STATE, the idempotency store and the id
\* counter as they were.
C27_ReplayReturnsFirstResponse ==
    [][ Repeated =>
          /\ last'.status_code = 200
          /\ last'.body = audit.first[IdemKey(last'.request)]
          /\ systems' = systems
          /\ uuids' = uuids ]_vars

\* the action_id an approve or a loop iteration was performed for
ActedFor(report) ==
    IF report.kind = "approve" THEN report.approval.action_id
    ELSE report.call.action_id

\* what the instance and the hook hold for action_id b: its approval list,
\* its map entry and the records its map entry names
HeldFor(by_action, ms, b) ==
    [approvals |-> Get(by_action, b, <<>>),
     entry     |-> Get(IdemOf(ms), b, None),
     records   |-> { <<k, RecordAt(ms, k)>> :
                       k \in { r \in Records(ms) : b \in OwnersOf(ms, r) } }]

\* C31: an approve, or an iteration of a replay loop (evaluate, execute,
\* undo), performed for one action_id leaves the approval list, the map entry
\* and the record of every other action_id as they were.
C31_ActionsIndependent ==
    [][ StepOf({"approve", "direct", "nuvalla", "fintech"}) =>
          \A b \in ActionIds \ {ActedFor(last')} :
              HeldFor(approvals_by_action', systems', b) =
                  HeldFor(approvals_by_action, systems, b) ]_vars

\* an iteration for one action_id executed and undid its call on a system
\* where another action_id holds a live record, and that other action_id
\* holds an approval too
C31_Witness ==
    /\ last.kind = "nuvalla"
    /\ last.undo_res # None
    /\ last.undo_res.ok
    /\ \E b \in ActionIds \ {last.call.action_id} :
           /\ HeldFor(approvals_by_action, systems, b).approvals # <<>>
           /\ \E r \in HeldFor(approvals_by_action, systems, b).records :
                  r[1][1] = last.call.system /\ ~r[2].deleted

\* the records stored on `system` by operation `operation`
RecordsOf(ms, system, operation) ==
    { k \in Records(ms) :
          k[1] = system /\ RecordAt(ms, k).operation = operation }

\* C32: under the built-in policy every stored netsuite vendor.create record
\* has kyc_passed true, every stored m365 email.send record is addressed to
\* the allow-listed domain, and every stored ehr medication.order record
\* belongs to an action_id for which an approval was submitted.
C32_GatedRecordsCompliant ==
    hook = "builtin" =>
        /\ \A k \in RecordsOf(systems, "netsuite", "vendor.create") :
               Get(RecordAt(systems, k).params, "kyc_passed", FALSE) = TRUE
        /\ \A k \in RecordsOf(systems, "m365", "email.send") :
               LET to == Get(RecordAt(systems, k).params, "to", <<"">>) IN
               Len(to) >= 2 /\ to[Len(to)] = AllowDomain
        /\ \A k \in RecordsOf(systems, "ehr", "medication.order") :
               /\ OwnersOf(systems, k) # {}
               /\ \A id \in OwnersOf(systems, k) : Submitted(audit, id) # <<>>

\* a medication order was stored after its sign-off, and a vendor without
\* KYC and an e-mail to another domain were blocked
C32_Witness ==
    /\ hook = "builtin"
    /\ RecordsOf(systems, "ehr", "medication.order") # {}
    /\ \E c \in audit.blocked :
           c.system = "netsuite" /\ c.operation = "vendor.create"
    /\ \E c \in audit.blocked :
           c.system = "m365" /\ c.operation = "email.send"

\* the routes that answer 404 for an entity they do not find
Lookups == { "/api/v1/ap/invoices/approve",
             "/api/v1/vendors/bank-change/request" }

\* how many approvals and bank-change requests a server holds
Granted(server, srv) ==
    IF server = "trustpay" THEN 0
    ELSE Cardinality(DOMAIN srv.state[ApprovalsOf(server)])
         + (IF server = "ledgerworks"
            THEN Cardinality({ r \in DOMAIN srv.objects :
                     "bank_change_request_id" \in DOMAIN srv.objects[r] })
            ELSE 0)

\* C33: a request answered 404 leaves STATE, the idempotency store and the
\* ids as they were; a later request with the same method, path and key is
\* processed once the entity exists (one approval or bank-change request
\* more, the receipt cached), and after that it changes nothing again.
C33_FailureNotCached ==
    [][ last'.kind = "request" =>
          /\ last'.status_code = 404 =>
                 systems' = systems /\ uuids' = uuids
          /\ ( /\ ~NoKey(last'.request.idempotency_key)
               /\ Authorized(last'.request.authorization)
               /\ IdemKey(last'.request) \in audit.failed
               /\ last'.status_code # 404 ) =>
                 /\ last'.status_code = 200
                 /\ IdemKey(last'.request) \in DOMAIN systems'.IDEMPOTENCY
                 /\ IF IdemKey(last'.request) \in DOMAIN audit.first
                    THEN Granted(runner, systems') = Granted(runner, systems)
                    ELSE Granted(runner, systems') =
                             Granted(runner, systems) + 1 ]_vars

\* an approval was answered 404, the invoice was created, and the approval
\* sent again with the same key was processed
C33_Witness ==
    /\ last.kind = "request"
    /\ last.request.path = "/api/v1/ap/invoices/approve"
    /\ ~NoKey(last.request.idempotency_key)
    /\ IdemKey(last.request) \in audit.failed
    /\ last.status_code = 200
    /\ nsteps = 3
    /\ Granted(runner, systems) = 1

\* the request carries no Authorization header that begins with "Bearer "
Unauthenticated(req) ==
    IF req.authorization = None THEN TRUE
    ELSE req.authorization.str[1] # "Bearer "

\* C34: a request without an Authorization header beginning with "Bearer "
\* is answered 401 with the error detail, never with a cached receipt, and
\* leaves STATE, the idempotency store and the ids as they were.
C34_UnauthenticatedRejected ==
    [][ (last'.kind = "request" /\ Unauthenticated(last'.request)) =>
          /\ last'.status_code = 401
          /\ last'.body = [detail |-> "Missing/invalid Authorization header"]
          /\ systems' = systems
          /\ uuids' = uuids ]_vars

\* a request with another scheme than Bearer was answered 401 although a
\* receipt is cached under its method, path and key
C34_Witness ==
    /\ last.kind = "request"
    /\ last.request.authorization # None
    /\ Unauthenticated(last.request)
    /\ IdemKey(last.request) \in DOMAIN systems.IDEMPOTENCY
    /\ last.status_code = 401

\* how many entities a server holds: the audit events, the entries of its
\* collections and the bank-change requests kept on its vendors
Stock(srv) ==
    Len(srv.state.audit)
    + Cardinality(UNION { { <<c, id>> : id \in DOMAIN srv.state[c] } :
                          c \in DOMAIN srv.state \ {"audit", "accounts"} })
    + Cardinality({ r \in DOMAIN srv.objects :
                      "bank_change_request_id" \in DOMAIN srv.objects[r] })

\* the request was answered 200 and no receipt was cached under its method,
\* path and key when it came in
Uncached ==
    /\ last'.kind = "request"
    /\ last'.status_code = 200
    /\ IF NoKey(last'.request.idempotency_key) THEN TRUE
       ELSE <<last'.request.method, last'.request.path,
              last'.request.idempotency_key.str>>
                \notin DOMAIN systems.IDEMPOTENCY

\* what the request leaves in the idempotency store: nothing without a key,
\* else one entry under its own method, path and key beside the others
ScopedStore ==
    IF NoKey(last'.request.idempotency_key)
    THEN systems'.IDEMPOTENCY = systems.IDEMPOTENCY
    ELSE /\ DOMAIN systems'.IDEMPOTENCY = DOMAIN systems.IDEMPOTENCY \cup
                { <<last'.request.method, last'.request.path,
                    last'.request.idempotency_key.str>> }
         /\ \A k \in DOMAIN systems.IDEMPOTENCY :
                systems'.IDEMPOTENCY[k] = systems.IDEMPOTENCY[k]

\* the request stored its entity over the one held under the id its payload
\* names
Replaced(collection, field) ==
    /\ field \in DOMAIN last'.request.payload
    /\ last'.request.payload[field] \in DOMAIN systems.state[collection]
    /\ Stock(systems') = Stock(systems)
    /\ systems'.state[collection][last'.request.payload[field]] \notin
           DOMAIN systems.objects
    /\ systems'.objects[systems'.state[collection]
                             [last'.request.payload[field]]].created_at_ms
           = nsteps'

TotalBalance(srv, req) ==
    float_add(srv.state.accounts[req.payload.from_account],
              srv.state.accounts[req.payload.to_account])

\* C36: a processed TrustPay transfer between two accounts that both exist
\* leaves the sum of their balances as it was, and a transfer answered from
\* the idempotency store moves no money.
C36_TransferConservesMoney ==
    [][ ( /\ last'.kind = "request"
          /\ last'.request.path = "/api/v1/payments/transfer"
          /\ last'.status_code = 200 ) =>
          IF Uncached
          THEN {last'.request.payload.from_account,
                last'.request.payload.to_account}
                   \subseteq DOMAIN systems.state.accounts
               => TotalBalance(systems', last'.request) =
                      TotalBalance(systems, last'.request)
          ELSE systems'.state.accounts = systems.state.accounts ]_vars

\* C37: of two requests with one method, path and Idempotency-Key in flight
\* at the same time at most one takes effect (the handler that runs second
\* leaves the server and the ids as the first left them, and at most one
\* entity more is held than when they were sent), and both callers are
\* handed the same status and body.
C37_ConcurrentDuplicates ==
    /\ [][ \A c \in Callers :
             ( /\ c \in DOMAIN threads
               /\ threads[c].pc = "sent"
               /\ threads'[c].pc = "handled"
               /\ \E o \in Callers \ {c} : threads[o].pc # "sent" )
             => systems' = systems /\ uuids' = uuids ]_vars
    /\ [] ( ( /\ threads # EmptyDict
              /\ \A c \in Callers : threads[c].pc # "sent" ) =>
                /\ \A c, o \in Callers :
                       /\ threads[c].status_code = threads[o].status_code
                       /\ threads[c].body = threads[o].body
                /\ Stock(systems) <= Stock(audit.sent) + 1 )

\* both callers have received the same 200 receipt for a transfer that was
\* posted once
C37_Witness ==
    /\ threads # EmptyDict
    /\ \A c \in Callers :
           threads[c].pc = "received" /\ threads[c].status_code = 200
    /\ threads["caller_1"].request.path = "/api/v1/payments/transfer"
    /\ threads["caller_1"].body.received_at_ms
           = threads["caller_2"].body.received_at_ms
    /\ Stock(systems) = Stock(audit.sent) + 1
    /\ Cardinality(DOMAIN systems.IDEMPOTENCY) = 1

\* the requests in flight
InFlight == { i \in DOMAIN threads : threads[i].pc = "request" }

KeysOf(i) == { audit.keys[i][k] : k \in 1..Len(audit.keys[i]) }

\* C39: in the sequential mode a scenario whose index is a multiple of the
\* replay interval (37, 41) was sent twice under one key and every other
\* scenario once, no key is shared by two scenarios, the success counter
\* grows in an iteration by one exactly when the first attempt succeeded,
\* and it never exceeds the number of scenarios sent.
C39_SequentialReplays ==
    /\ [] ( /\ \A i \in 1..MaxSeqScenarios :
                   /\ Len(audit.keys[i]) =
                          IF i > nsteps THEN 0
                          ELSE IF i % (IF runner = "trust_agent" THEN 37
                                       ELSE 41) = 0 THEN 2
                          ELSE 1
                   /\ Cardinality(KeysOf(i)) <= 1
                   /\ \A j \in 1..MaxSeqScenarios :
                          i # j => KeysOf(i) \cap KeysOf(j) = {}
            /\ replay.success <= nsteps )
    /\ [][ last'.kind = "scenario" =>
              replay'.success =
                  replay.success + (IF last'.oks[1] THEN 1 ELSE 0) ]_vars

\* a scenario was sent twice, its first attempt failed and its replay
\* succeeded, after every earlier request had succeeded
C39_Witness ==
    /\ last.kind = "scenario"
    /\ Len(audit.keys[last.i]) = 2
    /\ last.oks = <<FALSE, TRUE>>
    /\ replay.success = nsteps - 1

====
